---- MODULE Spec2Model ----
(***************************************************************************)
(* A model of the summarization pipeline of src/summarizer.py and of the   *)
(* routes of src/app.py.                                                   *)
(*                                                                         *)
(* Strings are sequences of one-character strings.  Ten specifications     *)
(* share the variables:                                                    *)
(*   SpecSplit  - _smart_split, one loop iteration per step;               *)
(*   SpecInstr  - _make_output_instructions on bounded templates;          *)
(*   SpecParse  - _parse_repair_and_lock_schema, one block per step;       *)
(*   SpecRun    - one summarize_document run, one model call per step;     *)
(*   SpecSent   - _enforce_sentence_length on bounded sentences;           *)
(*   SpecChat   - _chat, one client path per step;                         *)
(*   SpecDoc    - a whole run from the text to its end, weakly fair:       *)
(*                the splitting loops followed by the model calls;         *)
(*   SpecAccounts - register, login, logout and forgot_password of         *)
(*                src/app.py, one request per step;                        *)
(*   SpecDocuments - the document and category routes of src/app.py for    *)
(*                two registered users, one request per step;              *)
(*   SpecApp    - every route of src/app.py that tests the session, one    *)
(*                request per step, over one browser session and the       *)
(*                tables the routes use.                                   *)
(***************************************************************************)
EXTENDS Integers, Sequences, FiniteSets, TLC

\* ------------------------------------------------------------------ bounds
MaxTextLen == 5
MaxMaxLen == 3
MaxOverlap == 2
MaxSections == 2
MaxItems == 2
MaxBlocks == 2
MaxRespItems == 2
MaxChunks == 2
MaxExtraWords == 2
MaxChats == 2
MaxUsers == 2
MaxFiles == 1
MaxFolders == 1
MaxTemplates == 1
MaxFeedback == 1

\* ------------------------------------------------------- configuration
MAX_RETRIES == 2
SENTENCE_MAX_WORDS == 30

VARIABLES
    \* _smart_split
    text, max_len, overlap, spc, paras, sents, chunks, buf, cur, final, k, i,
    \* _make_output_instructions and _parse_repair_and_lock_schema
    template, tph, instr, dataKind, nblocks, source_blocks, overwrote, result,
    \* summarize_document
    runTemplate, nChunks, rpc, idx, notes, attempt, last_err, log, raw, data, outcome,
    \* _enforce_sentence_length
    sentence, eph, shortened,
    \* _chat
    client, cph, nchat, last, tried, chatOut, chatLog,
    \* app.py: the deployment, the browser session, the tables, the response
    schema, adminEnv, session, users, admindatabase, files, folders,
    uploadsummarytemplates, userfeedback, serial, reply

splitVars == <<text, max_len, overlap, spc, paras, sents, chunks, buf, cur, final, k, i>>
tmplVars == <<template, tph, instr, dataKind, nblocks, source_blocks, overwrote, result>>
runVars == <<runTemplate, nChunks, rpc, idx, notes, attempt, last_err, log, raw, data, outcome>>
sentVars == <<sentence, eph, shortened>>
chatVars == <<client, cph, nchat, last, tried, chatOut, chatLog>>
appVars == <<schema, adminEnv, session, users, admindatabase, files, folders,
             uploadsummarytemplates, userfeedback, serial, reply>>
vars == <<splitVars, tmplVars, runVars, sentVars, chatVars, appVars>>
notSplitVars == <<tmplVars, runVars, sentVars, chatVars, appVars>>
notTmplVars == <<splitVars, runVars, sentVars, chatVars, appVars>>
notRunVars == <<splitVars, tmplVars, sentVars, chatVars, appVars>>
notSentVars == <<splitVars, tmplVars, runVars, chatVars, appVars>>
notChatVars == <<splitVars, tmplVars, runVars, sentVars, appVars>>
notAppVars == <<splitVars, tmplVars, runVars, sentVars, chatVars>>

\* ------------------------------------------------------------ characters
\* Python's \s and str.strip(): the whitespace characters
IsSpace(c) == c \in {" ", "\n", "\r", "\t"}
\* the lookbehind class [.!?] of _DEF_SENT_SPLIT
IsTerminal(c) == c \in {".", "!", "?"}
\* the lookahead class [A-Z0-9(] of _DEF_SENT_SPLIT ("A" and "0" stand for the ranges)
IsSentStart(c) == c \in {"A", "0", "("}

\* F(x), with x computed once however often F reads it
Once(x, F(_)) == CHOOSE r \in {F(v) : v \in {x}} : TRUE

RECURSIVE LStrip(_)
LStrip(s) ==
    Once(s, LAMBDA v : IF v # <<>> /\ IsSpace(Head(v)) THEN LStrip(Tail(v)) ELSE v)

RECURSIVE RStrip(_)
RStrip(s) ==
    Once(s, LAMBDA v :
        IF v # <<>> /\ IsSpace(v[Len(v)]) THEN RStrip(SubSeq(v, 1, Len(v) - 1)) ELSE v)

\* str.strip()
Strip(s) == RStrip(LStrip(s))

\* sep.join(parts)
RECURSIVE Join(_, _)
Join(parts, sep) ==
    Once(parts, LAMBDA p :
        IF p = <<>> THEN <<>>
        ELSE IF Len(p) = 1 THEN p[1]
        ELSE p[1] \o sep \o Join(Tail(p), sep))

\* the concatenation of a sequence of strings
Concat(parts) == Join(parts, <<>>)

\* s[a:b] of Python, for 0 <= a
Slice(s, a, b) == SubSeq(s, a + 1, IF b < Len(s) THEN b ELSE Len(s))

\* s[-n:] of Python, for n >= 1
LastN(s, n) == IF n >= Len(s) THEN s ELSE SubSeq(s, Len(s) - n + 1, Len(s))

\* the length of the run of whitespace that starts at s[j]
RECURSIVE SpaceRun(_, _)
SpaceRun(s, j) == IF j <= Len(s) /\ IsSpace(s[j]) THEN 1 + SpaceRun(s, j + 1) ELSE 0

\* the length of the run of newlines that starts at s[j]
RECURSIVE NewlineRun(_, _)
NewlineRun(s, j) == IF j <= Len(s) /\ s[j] = "\n" THEN 1 + NewlineRun(s, j + 1) ELSE 0

\* --------------------------------------------------------- _smart_split
\* re.split(r"\n{2,}", text)
RECURSIVE SplitParasFrom(_, _, _)
SplitParasFrom(s, j, acc) ==
    IF j > Len(s) THEN <<acc>>
    ELSE IF NewlineRun(s, j) >= 2
         THEN <<acc>> \o SplitParasFrom(s, j + NewlineRun(s, j), <<>>)
         ELSE SplitParasFrom(s, j + 1, Append(acc, s[j]))

SplitParas(s) == SplitParasFrom(s, 1, <<>>)

\* a match of _DEF_SENT_SPLIT starts at s[j]: (?<=[.!?])\s+(?=[A-Z0-9(])
SentBreakAt(s, j) ==
    /\ j > 1
    /\ IsTerminal(s[j - 1])
    /\ IsSpace(s[j])
    /\ j + SpaceRun(s, j) <= Len(s)
    /\ IsSentStart(s[j + SpaceRun(s, j)])

\* _DEF_SENT_SPLIT.split(p)
RECURSIVE SplitSentsFrom(_, _, _)
SplitSentsFrom(s, j, acc) ==
    IF j > Len(s) THEN <<acc>>
    ELSE IF SentBreakAt(s, j)
         THEN <<acc>> \o SplitSentsFrom(s, j + SpaceRun(s, j), <<>>)
         ELSE SplitSentsFrom(s, j + 1, Append(acc, s[j]))

SplitSents(s) == SplitSentsFrom(s, 1, <<>>)

\* flush_buf(): the chunk list after the buffer is flushed
FlushBuf(cs, b) ==
    LET s == Strip(Join(b, <<"\n", "\n">>))
    IN IF s # <<>> THEN Append(cs, s) ELSE cs

\* a slip in the early return: the separator budget of the packing loop is charged
FitsOneChunk_Budgeted(t, m) == Len(t) + 2 <= m

\* the early return of _smart_split: the text fits one chunk
FitsOneChunk(t, m) == Len(t) <= m

\* a slip in the final pass: the slice end is inclusive
HardSlice_Inclusive(ch, j, m) == Slice(ch, j, j + m + 1)

\* one slice of the final pass: ch[i:i+max_len]
HardSlice(ch, j, m) == Slice(ch, j, j + m)

\* the step of the hard-slice loop
SliceStride(m, o) == IF o < m THEN m - o ELSE m

\* lines 61-69: the early return, or the paragraph split
SplitEnter ==
    /\ spc = "start"
    /\ IF FitsOneChunk(text, max_len)
       THEN /\ final' = <<text>>
            /\ spc' = "done"
            /\ paras' = paras
       ELSE /\ paras' = SplitParas(text)
            /\ spc' = "paras"
            /\ final' = final
    /\ UNCHANGED <<text, max_len, overlap, sents, chunks, buf, cur, k, i>>
    /\ UNCHANGED notSplitVars

\* lines 76-82: one iteration of `for p in paras`
ParaStep ==
    /\ spc = "paras"
    /\ paras # <<>>
    /\ LET p == Head(paras) IN
       IF cur + Len(p) + 2 <= max_len
       THEN /\ buf' = Append(buf, p)
            /\ cur' = cur + Len(p) + 2
            /\ UNCHANGED <<sents, spc>>
       ELSE /\ sents' = SplitSents(p)
            /\ spc' = "sents"
            /\ UNCHANGED <<buf, cur>>
    /\ paras' = Tail(paras)
    /\ UNCHANGED <<text, max_len, overlap, chunks, final, k, i>>
    /\ UNCHANGED notSplitVars

\* lines 83-97: one iteration of `for s in sents`
SentStep ==
    /\ spc = "sents"
    /\ sents # <<>>
    /\ LET s == Head(sents) IN
       IF cur + Len(s) + 1 <= max_len
       THEN /\ buf' = Append(buf, s)
            /\ cur' = cur + Len(s) + 1
            /\ chunks' = chunks
       ELSE LET flushed == FlushBuf(chunks, buf) IN
            /\ chunks' = flushed
            /\ IF overlap # 0 /\ flushed # <<>>
               THEN LET tail == LastN(flushed[Len(flushed)], overlap) IN
                    /\ buf' = <<tail \o s>>
                    /\ cur' = Len(tail) + Len(s)
               ELSE /\ buf' = <<s>>
                    /\ cur' = Len(s)
    /\ sents' = Tail(sents)
    /\ UNCHANGED <<text, max_len, overlap, spc, paras, final, k, i>>
    /\ UNCHANGED notSplitVars

\* line 83: `for s in sents` is exhausted, back to the paragraph loop
SentsDone ==
    /\ spc = "sents"
    /\ sents = <<>>
    /\ spc' = "paras"
    /\ UNCHANGED <<text, max_len, overlap, paras, sents, chunks, buf, cur, final, k, i>>
    /\ UNCHANGED notSplitVars

\* line 98: the flush after the paragraph loop
FlushFinal ==
    /\ spc = "paras"
    /\ paras = <<>>
    /\ chunks' = FlushBuf(chunks, buf)
    /\ spc' = "final"
    /\ k' = 1
    /\ UNCHANGED <<text, max_len, overlap, paras, sents, buf, cur, final, i>>
    /\ UNCHANGED notSplitVars

\* lines 102-106: one iteration of `for ch in chunks`
FinalStep ==
    /\ spc = "final"
    /\ k <= Len(chunks)
    /\ IF Len(chunks[k]) <= max_len
       THEN /\ final' = Append(final, chunks[k])
            /\ k' = k + 1
            /\ UNCHANGED <<spc, i>>
       ELSE /\ i' = 0
            /\ spc' = "slice"
            /\ UNCHANGED <<final, k>>
    /\ UNCHANGED <<text, max_len, overlap, paras, sents, chunks, buf, cur>>
    /\ UNCHANGED notSplitVars

\* lines 107-109: one iteration of `while i < len(ch)`
SliceStep ==
    /\ spc = "slice"
    /\ i < Len(chunks[k])
    /\ final' = Append(final, HardSlice(chunks[k], i, max_len))
    /\ i' = i + SliceStride(max_len, overlap)
    /\ UNCHANGED <<text, max_len, overlap, spc, paras, sents, chunks, buf, cur, k>>
    /\ UNCHANGED notSplitVars

\* line 107: the while loop ends, on to the next chunk
SliceDone ==
    /\ spc = "slice"
    /\ i >= Len(chunks[k])
    /\ spc' = "final"
    /\ k' = k + 1
    /\ UNCHANGED <<text, max_len, overlap, paras, sents, chunks, buf, cur, final, i>>
    /\ UNCHANGED notSplitVars

\* line 110: return final
SplitReturn ==
    /\ spc = "final"
    /\ k > Len(chunks)
    /\ spc' = "done"
    /\ UNCHANGED <<text, max_len, overlap, paras, sents, chunks, buf, cur, final, k, i>>
    /\ UNCHANGED notSplitVars

\* --------------------------------------------------------- text helpers
\* .replace("\n", " ").replace("\r", " ")
NewlinesToSpaces(s) ==
    Once(s, LAMBDA v : [j \in 1..Len(v) |-> IF v[j] \in {"\n", "\r"} THEN " " ELSE v[j]])

\* the backtick character
Backtick == "BACKTICK"

\* .replace("*", "").replace("", "").replace("`", ""): the middle call replaces
\* the empty string by itself and changes nothing
DropInlineMarks(s) == SelectSeq(s, LAMBDA c : c \notin {"*", Backtick})

\* re.sub(r"\s{2,}", " ", s)
RECURSIVE CollapseSpaces(_)
CollapseSpaces(s) ==
    Once(s, LAMBDA v :
        IF v = <<>> THEN <<>>
        ELSE IF SpaceRun(v, 1) >= 2
             THEN <<" ">> \o CollapseSpaces(SubSeq(v, SpaceRun(v, 1) + 1, Len(v)))
             ELSE <<Head(v)>> \o CollapseSpaces(Tail(v)))

\* _clean_inline on a string (None and "" both give "")
CleanInline(s) == Strip(CollapseSpaces(DropInlineMarks(NewlinesToSpaces(s))))

\* the pieces of s between the occurrences of the character sep
RECURSIVE SplitOn(_, _)
SplitOn(s, sep) ==
    IF \E j \in 1..Len(s) : s[j] = sep
    THEN LET j == CHOOSE n \in 1..Len(s) :
                      s[n] = sep /\ \A m \in 1..(n - 1) : s[m] # sep
         IN <<SubSeq(s, 1, j - 1)>> \o SplitOn(SubSeq(s, j + 1, Len(s)), sep)
    ELSE <<s>>

\* ------------------------------------------------------------ templates
\* A Template is [kind, sections]: kind "list" when template["sections"] is a
\* list, "missing" when the key is absent, "notlist" when it holds something
\* else.  A section is [heading, items]; an absent key reads as its .get()
\* default, "" or [].
TemplateHeadings == {<<"a">>, <<"b", "*">>, <<"*">>, <<>>}
TemplateLabels == {<<"x">>, <<" ", "y">>}

ItemLists == UNION {[1..n -> TemplateLabels] : n \in 0..MaxItems}
Sections == [heading : TemplateHeadings, items : ItemLists]
Templates ==
    {[kind |-> "missing", sections |-> <<>>], [kind |-> "notlist", sections |-> <<>>]}
    \cup {[kind |-> "list", sections |-> ss] :
            ss \in UNION {[1..n -> Sections] : n \in 0..MaxSections}}

\* ---------------------------------------------- _make_output_instructions
\* In the instruction text a fixed phrase is one character.
\* lines 190-198: the seven fixed entries of `lines`
PreambleLines ==
    << <<"Return ONLY a single JSON object with EXACTLY this structure:">>,
       <<"{", "\n", "  \"blocks\": [", "\n",
         "    { \"heading\": string, \"items\": [ { \"label\": string, \"value\": string }, ... ] },",
         "\n", "    ...", "\n", "  ]", "\n", "}">>,
       <<"Rules:">>,
       <<"- No Markdown, no bullet signs, no code fences, no extra keys.">>,
       <<"- Use the EXACT order and labels below; do not add, remove, or rename items.">>,
       <<"- Each value must be one short sentence (<=", ToString(SENTENCE_MAX_WORDS), " words).">>,
       <<"- If a field is not in the paper, write 'Not reported.'">> >>

\* line 206: f"{i}) Heading: {heading}"
HeadingLine(num, heading) == <<ToString(num), ") Heading: ">> \o heading

\* a slip in line 207: the last label is left out of the listing
ItemsLine_DropLast(items) ==
    <<"   Items: ">> \o Join(SubSeq(items, 1, Len(items) - 1), <<" | ">>)

\* line 207: "   Items: " + " | ".join(items)
ItemsLine(items) == <<"   Items: ">> \o Join(items, <<" | ">>)

\* line 185: the template has a `sections` list
HasSectionList(tpl) == tpl.kind = "list"

\* lines 200-207: the loop over the sections, from section num on
RECURSIVE InstructionLoop(_, _, _, _)
InstructionLoop(secs, num, lines, shape) ==
    IF num > Len(secs)
    THEN [ok |-> TRUE, err |-> "", text |-> Join(lines, <<"\n">>), shape |-> shape]
    ELSE LET heading == CleanInline(Strip(secs[num].heading))
             items == [j \in 1..Len(secs[num].items) |-> CleanInline(secs[num].items[j])]
         IN IF heading = <<>> \/ items = <<>>
            THEN [ok |-> FALSE, err |-> "ValueError", text |-> <<>>, shape |-> <<>>]
            ELSE InstructionLoop(secs, num + 1,
                     lines \o <<HeadingLine(num, heading), ItemsLine(items)>>,
                     Append(shape, <<heading, items>>))

\* _make_output_instructions(template)
MakeOutputInstructions(tpl) ==
    IF ~HasSectionList(tpl)
    THEN [ok |-> FALSE, err |-> "ValueError", text |-> <<>>, shape |-> <<>>]
    ELSE InstructionLoop(tpl.sections, 1, PreambleLines, <<>>)

\* the call of _make_output_instructions
MakeInstructions ==
    /\ tph = "instr"
    /\ instr' = MakeOutputInstructions(template)
    /\ tph' = "instr_done"
    /\ UNCHANGED <<template, dataKind, nblocks, source_blocks, overwrote, result>>
    /\ UNCHANGED notTmplVars

\* ------------------------------------------------------- value cleaning
\* A JSON value is [t, s]: a string ("str", with its characters), null or
\* another falsy value ("null"), or a truthy non-string ("other").
JStr(s) == [t |-> "str", s |-> s]
JNull == [t |-> "null", s |-> <<>>]
JOther == [t |-> "other", s |-> <<>>]

\* the literal "Not reported."
NotReported == <<"N", "o", "t", " ", "r", "e", "p", "o", "r", "t", "e", "d", ".">>

\* str(v or ""); the text of a truthy non-string is one character here
StrOf(v) == IF v.t = "str" THEN v.s ELSE IF v.t = "null" THEN <<>> ELSE <<"5">>

\* _strip_md, lines 349-357.  Line 350 is read as the code-span pattern its
\* comment names (a backtick run, any text, a backtick run); it, the
\* line-start patterns of lines 352-353 and the patterns of lines 354-356
\* match only texts holding a backtick, #, >, -, a bullet, | or a newline, and
\* no value of this model holds one.
StripMd(s) ==
    Once(s, LAMBDA v :
        LET tabs == [j \in 1..Len(v) |-> IF v[j] = "\t" THEN " " ELSE v[j]]
            marks == SelectSeq(tabs, LAMBDA c : c \notin {"*", "_"})
        IN Strip(marks))

\* _clean_value on a string
CleanStr(s) ==
    Once(CollapseSpaces(StripMd(Strip(s))), LAMBDA t :
        IF t # <<>> /\ ~IsTerminal(t[Len(t)]) THEN Append(t, ".") ELSE t)

\* _clean_value(v)
CleanValue(v) == CleanStr(StrOf(v))

\* s.split()
RECURSIVE Words(_)
Words(s) ==
    Once(LStrip(s), LAMBDA t :
        IF t = <<>> THEN <<>>
        ELSE LET n == CHOOSE m \in 1..Len(t) :
                          /\ \A j \in 1..m : ~IsSpace(t[j])
                          /\ (m = Len(t) \/ IsSpace(t[m + 1]))
             IN <<SubSeq(t, 1, n)>> \o Words(SubSeq(t, n + 1, Len(t))))

\* .rstrip(",;:")
RECURSIVE RStripPunct(_)
RStripPunct(s) ==
    Once(s, LAMBDA v :
        IF v # <<>> /\ v[Len(v)] \in {",", ";", ":"}
        THEN RStripPunct(SubSeq(v, 1, Len(v) - 1)) ELSE v)

\* a slip in line 382: one word too many is kept
EnforceSentenceLength_OneMore(s) ==
    Once(Words(s), LAMBDA words :
        IF Len(words) <= SENTENCE_MAX_WORDS THEN s
        ELSE Once(RStripPunct(Join(SubSeq(words, 1, SENTENCE_MAX_WORDS + 1), <<" ">>)),
                  LAMBDA trimmed :
                      IF trimmed # <<>> /\ ~IsTerminal(trimmed[Len(trimmed)])
                      THEN Append(trimmed, ".") ELSE trimmed))

\* _enforce_sentence_length(s)
EnforceSentenceLength(s) ==
    Once(Words(s), LAMBDA words :
        IF Len(words) <= SENTENCE_MAX_WORDS THEN s
        ELSE Once(RStripPunct(Join(SubSeq(words, 1, SENTENCE_MAX_WORDS), <<" ">>)),
                  LAMBDA trimmed :
                      IF trimmed # <<>> /\ ~IsTerminal(trimmed[Len(trimmed)])
                      THEN Append(trimmed, ".") ELSE trimmed))

\* the call of _enforce_sentence_length
EnforceLength ==
    /\ eph = "call"
    /\ shortened' = EnforceSentenceLength(sentence)
    /\ eph' = "done"
    /\ UNCHANGED sentence
    /\ UNCHANGED notSentVars

\* ------------------------------------------ _parse_repair_and_lock_schema
\* A block of data["blocks"] is [d, heading, isList, items]: d is whether the
\* block is a JSON object, isList whether its "items" entry is a list.  An item
\* is [d, label, value].
RespHeadings == {JStr(<<"a">>), JStr(<<"b">>), JStr(<<"*", "b", " ">>), JNull, JOther}
RespLabels == {JStr(<<"x">>), JStr(<<"y", "*">>), JOther}
RespValues == {JStr(<<"w">>), JStr(<<" ", "*">>), JNull}

RespItems ==
    [d : {TRUE}, label : RespLabels, value : RespValues]
    \cup {[d |-> FALSE, label |-> JNull, value |-> JNull]}
RespItemLists == UNION {[1..n -> RespItems] : n \in 0..MaxRespItems}
RespBlocks ==
    [d : {TRUE}, heading : RespHeadings, isList : {TRUE}, items : RespItemLists]
    \cup [d : {TRUE}, heading : RespHeadings, isList : {FALSE}, items : {<<>>}]
    \cup {[d |-> FALSE, heading |-> JNull, isList |-> FALSE, items |-> <<>>]}

\* what json.loads made of the repaired text (lines 236-243)
DataKinds == {"invalid_json", "not_object", "no_blocks", "blocks_not_list", "ok"}

\* the empty dict
EmptyMap == <<>>

\* d[key] = value on a dict held as a function
DictSet(d, key, value) ==
    Once(<<d, key, value>>, LAMBDA a :
        [x \in (DOMAIN a[1]) \cup {a[2]} |-> IF x = a[2] THEN a[3] ELSE a[1][x]])

\* a slip in d.get: an absent key yields the empty value, not the default
DictGet_EmptyDefault(d, key, default) == IF key \in DOMAIN d THEN d[key] ELSE <<>>

\* d.get(key, default)
DictGet(d, key, default) == IF key \in DOMAIN d THEN d[key] ELSE default

\* lines 256-262: label_map of one block, from item j on
RECURSIVE LabelMapLoop(_, _, _)
LabelMapLoop(items, j, label_map) ==
    Once(label_map, LAMBDA lm :
        IF j > Len(items) THEN [ok |-> TRUE, map |-> lm]
        ELSE IF ~items[j].d THEN LabelMapLoop(items, j + 1, lm)
        ELSE IF items[j].label.t = "other" THEN [ok |-> FALSE, map |-> lm]
        ELSE Once(CleanInline(StrOf(items[j].label)), LAMBDA label :
                 LET value == CleanValue(items[j].value)
                 IN LabelMapLoop(items, j + 1,
                        IF label # <<>> THEN DictSet(lm, label, value) ELSE lm)))

\* lines 253-264: one iteration of `for b in data.get("blocks", [])`
ProcessBlock(sb, b) ==
    IF ~b.d \/ b.heading.t = "other"
    THEN [ok |-> FALSE, err |-> "AttributeError", sb |-> sb]
    ELSE LET heading == CleanInline(StrOf(b.heading))
             items == IF b.isList THEN b.items ELSE <<>>
         IN Once(LabelMapLoop(items, 1, EmptyMap), LAMBDA lm :
                IF ~lm.ok THEN [ok |-> FALSE, err |-> "AttributeError", sb |-> sb]
                ELSE [ok |-> TRUE, err |-> "",
                      sb |-> IF heading # <<>> THEN DictSet(sb, heading, lm.map) ELSE sb])

\* line 246: expected
Expected(tpl) ==
    [n \in 1..Len(tpl.sections) |->
        [heading |-> CleanInline(tpl.sections[n].heading),
         labels |-> [j \in 1..Len(tpl.sections[n].items) |->
                        CleanInline(tpl.sections[n].items[j])]]]

\* a slip in lines 269-271: only the labels the response holds are emitted
LockedItems_FromSource(src, labels) ==
    LET present == SelectSeq(labels, LAMBDA lab : lab \in DOMAIN src)
    IN [j \in 1..Len(present) |->
           [label |-> present[j],
            value |-> EnforceSentenceLength(CleanStr(src[present[j]]))]]

\* lines 268-271: out_items of one section
LockedItems(src, labels) ==
    [j \in 1..Len(labels) |->
        [label |-> labels[j],
         value |-> EnforceSentenceLength(CleanStr(DictGet(src, labels[j], NotReported)))]]

\* lines 266-272: locked_blocks
LockedBlocks(expected, sb) ==
    [n \in 1..Len(expected) |->
        [heading |-> expected[n].heading,
         items |-> LockedItems(DictGet(sb, expected[n].heading, EmptyMap),
                               expected[n].labels)]]

\* lines 245-274: the schema lock
LockSchema(tpl, sb) ==
    [ok |-> TRUE, err |-> "", blocks |-> LockedBlocks(Expected(tpl), sb)]

\* The template is read once, at line 246, and nothing before that line
\* depends on it: its value is drawn where the result is built.  A template
\* whose `sections` entry is no list makes line 246 fail before any block is
\* read, and is left to ParseRepairLock below.
ParseTemplates == {tpl \in Templates : tpl.kind # "notlist"}

\* lines 236-243: parsing, and the check for the `blocks` array
ParseEnter ==
    /\ tph = "parse"
    /\ \E kind \in DataKinds :
        /\ dataKind' = kind
        /\ IF kind = "ok"
           THEN /\ tph' = "blocks"
                /\ result' = result
           ELSE /\ tph' = "parse_done"
                /\ result' = [ok |-> FALSE, err |-> "ValueError", blocks |-> <<>>]
    /\ UNCHANGED <<template, instr, nblocks, source_blocks, overwrote>>
    /\ UNCHANGED notTmplVars

\* lines 253-264: the next block of the response is mapped
BlockStep ==
    /\ tph = "blocks"
    /\ nblocks < MaxBlocks
    /\ \E b \in RespBlocks :
        LET r == ProcessBlock(source_blocks, b) IN
        /\ nblocks' = nblocks + 1
        /\ source_blocks' = r.sb
        /\ overwrote' = (overwrote \/
                (r.ok /\ b.heading.t # "other"
                      /\ CleanInline(StrOf(b.heading)) \in DOMAIN source_blocks))
        /\ IF r.ok
           THEN UNCHANGED <<tph, result>>
           ELSE /\ tph' = "parse_done"
                /\ result' = [ok |-> FALSE, err |-> r.err, blocks |-> <<>>]
    /\ UNCHANGED <<template, instr, dataKind>>
    /\ UNCHANGED notTmplVars

\* lines 245-274: the response is exhausted; the result is built from the template
LockStep ==
    /\ tph = "blocks"
    /\ \E tpl \in ParseTemplates :
        /\ template' = tpl
        /\ result' = LockSchema(tpl, source_blocks)
    /\ tph' = "parse_done"
    /\ UNCHANGED <<instr, dataKind, nblocks, source_blocks, overwrote>>
    /\ UNCHANGED notTmplVars

\* _parse_repair_and_lock_schema on parsed data, in one piece
RECURSIVE MapBlocks(_, _, _)
MapBlocks(blocks, j, sb) ==
    IF j > Len(blocks) THEN [ok |-> TRUE, err |-> "", sb |-> sb]
    ELSE Once(ProcessBlock(sb, blocks[j]), LAMBDA r :
             IF r.ok THEN MapBlocks(blocks, j + 1, r.sb) ELSE r)

ParseRepairLock(kind, blocks, tpl) ==
    IF kind # "ok" THEN [ok |-> FALSE, err |-> "ValueError", blocks |-> <<>>]
    ELSE IF tpl.kind = "notlist" THEN [ok |-> FALSE, err |-> "TypeError", blocks |-> <<>>]
    ELSE Once(MapBlocks(blocks, 1, EmptyMap), LAMBDA m :
             IF ~m.ok THEN [ok |-> FALSE, err |-> m.err, blocks |-> <<>>]
             ELSE LockSchema(tpl, m.sb))

\* line 50 and line 237: json.dumps of the locked blocks, read back by
\* json.loads: every block an object, every heading, label and value a string
DumpsLoads(blocks) ==
    [n \in 1..Len(blocks) |->
        [d |-> TRUE, heading |-> JStr(blocks[n].heading), isList |-> TRUE,
         items |-> [j \in 1..Len(blocks[n].items) |->
                       [d |-> TRUE,
                        label |-> JStr(blocks[n].items[j].label),
                        value |-> JStr(blocks[n].items[j].value)]]]]

\* ----------------------------------------------------------- _render_plain
\* "-" * len(heading)
Dashes(n) == [j \in 1..n |-> "-"]

\* lines 285-291: the lines of the items of one block
RenderItems(items) ==
    [j \in 1..Len(items) |->
        LET label == Strip(items[j].label)
            value == Strip(IF items[j].value = <<>> THEN NotReported ELSE items[j].value)
        IN IF label # <<>> THEN label \o <<":", " ">> \o value ELSE value]

\* lines 280-292: the lines of the blocks from block n on
RECURSIVE RenderBlocks(_, _)
RenderBlocks(blocks, n) ==
    IF n > Len(blocks) THEN <<>>
    ELSE LET heading == Strip(blocks[n].heading)
         IN (IF heading # <<>> THEN <<heading, Dashes(Len(heading))>> ELSE <<>>)
            \o RenderItems(blocks[n].items) \o << <<>> >>
            \o RenderBlocks(blocks, n + 1)

\* _render_plain(summary_obj)
RenderPlain(blocks) == Strip(Join(RenderBlocks(blocks, 1), <<"\n">>))

\* ------------------------------------------------------ summarize_document
\* An exception is [type, site, n]: the site that raised it and the chunk or
\* attempt number it belongs to.
NoErr == [type |-> "", site |-> "", n |-> 0]
NoResp == [kind |-> "none", blocks |-> <<>>]

\* the templates a run is given: none, a non-list, and the lists of at most
\* one section
RunTemplates == {tpl \in Templates : Len(tpl.sections) <= 1}

\* what the model returns to the consolidation request, as json.loads reads
\* it: an ill-formed text, or an object whose `blocks` list holds at most one
\* block of at most one item
RunResponses ==
    {[kind |-> kd, blocks |-> <<>>] : kd \in DataKinds}
    \cup {[kind |-> "ok", blocks |-> <<b>>] :
            b \in {rb \in RespBlocks : Len(rb.items) <= 1}}

\* an entry of the run's log: a chunk request, a consolidation attempt, a sleep
Event(op, n, what) == [op |-> op, n |-> n, what |-> what]

\* a slip in line 147: the delay does not depend on the attempt
BackoffTenths_Flat(att) == 6

\* line 147: 0.6 * (attempt + 1) seconds, in tenths of a second
BackoffTenths(att) == 6 * (att + 1)

\* line 146: if attempt < MAX_RETRIES
ShouldRetry(att) == att < MAX_RETRIES

\* lines 120-133: one iteration of the loop over the chunks; _chat returns a
\* text or raises, and nothing here catches what it raises
ChunkCall ==
    /\ rpc = "chunks"
    /\ idx <= nChunks
    /\ \E ok \in BOOLEAN :
        IF ok
        THEN /\ log' = Append(log, Event("chunk", idx, "ok"))
             /\ notes' = Append(notes, idx)
             /\ idx' = idx + 1
             /\ UNCHANGED <<rpc, outcome>>
        ELSE /\ log' = Append(log, Event("chunk", idx, "_APIError"))
             /\ rpc' = "raised"
             /\ outcome' = [kind |-> "raised", json |-> <<>>, text |-> <<>>,
                            err |-> [type |-> "_APIError", site |-> "chunk", n |-> idx]]
             /\ UNCHANGED <<notes, idx>>
    /\ UNCHANGED <<runTemplate, nChunks, attempt, last_err, raw, data>>
    /\ UNCHANGED notRunVars

\* a slip in line 123: the loop stops one chunk short
ChunksDone_Early ==
    /\ rpc = "chunks"
    /\ idx >= nChunks
    /\ rpc' = "consolidate"
    /\ attempt' = 0
    /\ last_err' = NoErr
    /\ UNCHANGED <<runTemplate, nChunks, idx, notes, log, raw, data, outcome>>
    /\ UNCHANGED notRunVars

\* lines 134, 42, 140: the notes are returned and the retry loop is entered
ChunksDone ==
    /\ rpc = "chunks"
    /\ idx > nChunks
    /\ rpc' = "consolidate"
    /\ attempt' = 0
    /\ last_err' = NoErr
    /\ UNCHANGED <<runTemplate, nChunks, idx, notes, log, raw, data, outcome>>
    /\ UNCHANGED notRunVars

\* a slip in lines 141-149: a failed attempt is not counted, and the loop
\* goes round again
AttemptFailed_NoCount(e) ==
    /\ last_err' = e
    /\ UNCHANGED <<log, attempt, rpc, outcome, raw>>

\* lines 144-151: the handler of a failed attempt
AttemptFailed(e) ==
    /\ last_err' = e
    /\ IF ShouldRetry(attempt)
       THEN /\ log' = log \o <<Event("attempt", attempt, e.type),
                                Event("sleep", BackoffTenths(attempt), "")>>
            /\ attempt' = attempt + 1
            /\ IF attempt + 1 <= MAX_RETRIES
               THEN UNCHANGED <<rpc, outcome>>
               ELSE /\ rpc' = "raised"
                    /\ outcome' = [kind |-> "raised", json |-> <<>>, text |-> <<>>,
                                   err |-> e]
       ELSE /\ log' = Append(log, Event("attempt", attempt, e.type))
            /\ rpc' = "raised"
            /\ outcome' = [kind |-> "raised", json |-> <<>>, text |-> <<>>, err |-> e]
            /\ UNCHANGED attempt
    /\ UNCHANGED raw

\* lines 141-149 and 154-169: one attempt of the retry loop
ConsolidateAttempt ==
    /\ rpc = "consolidate"
    /\ IF ~MakeOutputInstructions(runTemplate).ok
       THEN AttemptFailed([type |-> "ValueError", site |-> "instructions", n |-> attempt])
       ELSE \E r \in RunResponses \cup {NoResp} :
               IF r = NoResp
               THEN AttemptFailed([type |-> "_APIError", site |-> "consolidate",
                                   n |-> attempt])
               ELSE /\ raw' = r
                    /\ log' = Append(log, Event("attempt", attempt, "ok"))
                    /\ rpc' = "parse"
                    /\ UNCHANGED <<attempt, last_err, outcome>>
    /\ UNCHANGED <<runTemplate, nChunks, idx, notes, data>>
    /\ UNCHANGED notRunVars

\* line 45: the consolidated text is parsed and locked to the template
ParseStep ==
    /\ rpc = "parse"
    /\ LET res == ParseRepairLock(raw.kind, raw.blocks, runTemplate) IN
       IF res.ok
       THEN /\ data' = res.blocks
            /\ rpc' = "render"
            /\ UNCHANGED outcome
       ELSE /\ rpc' = "raised"
            /\ outcome' = [kind |-> "raised", json |-> <<>>, text |-> <<>>,
                           err |-> [type |-> res.err, site |-> "parse", n |-> attempt]]
            /\ UNCHANGED data
    /\ UNCHANGED <<runTemplate, nChunks, idx, notes, attempt, last_err, log, raw>>
    /\ UNCHANGED notRunVars

\* a slip in lines 50-53: the result is returned without its text
RenderStep_JsonOnly ==
    /\ rpc = "render"
    /\ rpc' = "returned"
    /\ outcome' = [kind |-> "returned", json |-> data, text |-> <<>>, err |-> NoErr]
    /\ UNCHANGED <<runTemplate, nChunks, idx, notes, attempt, last_err, log, raw, data>>
    /\ UNCHANGED notRunVars

\* lines 48-53: the rendering and the return
RenderStep ==
    /\ rpc = "render"
    /\ rpc' = "returned"
    /\ outcome' = [kind |-> "returned", json |-> data, text |-> RenderPlain(data),
                   err |-> NoErr]
    /\ UNCHANGED <<runTemplate, nChunks, idx, notes, attempt, last_err, log, raw, data>>
    /\ UNCHANGED notRunVars

\* -------------------------------------------------------------------- _chat
\* hasattr(client, "chat"), hasattr(client.chat, "completions") and
\* hasattr(client, "responses")
Clients ==
    [chat : {TRUE}, completions : BOOLEAN, responses : BOOLEAN]
    \cup [chat : {FALSE}, completions : {FALSE}, responses : BOOLEAN]

\* line 308: the Chat Completions path is there
HasChatPath(c) == c.chat /\ c.completions

\* what client.chat.completions.create does: it raises, or returns a response
\* with no choice, or one whose first choice's message has this content
ChatContents == {JNull, JStr(<<>>), JStr(<<"A">>), JStr(<<" ", "A", "\n">>), JOther}
ChatResponses ==
    [raised : {FALSE}, choices : {1}, content : ChatContents]
    \cup {[raised |-> FALSE, choices |-> 0, content |-> JNull],
          [raised |-> TRUE, choices |-> 0, content |-> JNull]}

\* lines 309-316: the text of the Chat Completions response, or what is raised
PrimaryText(resp) ==
    IF resp.raised THEN [ok |-> FALSE, err |-> "Exception", text |-> <<>>]
    ELSE IF resp.choices = 0 THEN [ok |-> FALSE, err |-> "IndexError", text |-> <<>>]
    ELSE IF resp.content.t = "other"
         THEN [ok |-> FALSE, err |-> "AttributeError", text |-> <<>>]
    ELSE [ok |-> TRUE, err |-> "", text |-> Strip(StrOf(resp.content))]

\* what client.responses.create does: it raises, or returns a response with an
\* output_text attribute, or with a content list of parts, or with neither
PartLists ==
    {<<>>, <<JStr(<<"A">>)>>, <<JStr(<<"A", " ">>), JStr(<<"A">>)>>, <<JStr(<<"A">>), JNull>>}
FallbackResponses ==
    [raised : {FALSE}, shape : {"output_text"},
     output_text : {JNull, JStr(<<" ", "A">>), JOther}, parts : {<<>>}]
    \cup [raised : {FALSE}, shape : {"content"}, output_text : {JNull}, parts : PartLists]
    \cup {[raised |-> FALSE, shape |-> "none", output_text |-> JNull, parts |-> <<>>],
          [raised |-> TRUE, shape |-> "none", output_text |-> JNull, parts |-> <<>>]}

\* "".join(parts), from part j on; a part whose text is None makes join raise
RECURSIVE JoinParts(_, _)
JoinParts(parts, j) ==
    IF j > Len(parts) THEN [ok |-> TRUE, text |-> <<>>]
    ELSE IF parts[j].t # "str" THEN [ok |-> FALSE, text |-> <<>>]
    ELSE LET rest == JoinParts(parts, j + 1)
         IN [ok |-> rest.ok, text |-> parts[j].s \o rest.text]

\* lines 326-339: the text of the Responses API response, or what is raised
FallbackText(resp) ==
    IF resp.raised THEN [ok |-> FALSE, text |-> <<>>]
    ELSE IF resp.shape = "output_text"
         THEN IF resp.output_text.t = "other" THEN [ok |-> FALSE, text |-> <<>>]
              ELSE [ok |-> TRUE, text |-> Strip(StrOf(resp.output_text))]
    ELSE IF resp.shape = "content" /\ resp.parts # <<>>
         THEN LET joined == JoinParts(resp.parts, 1)
              IN [ok |-> joined.ok, text |-> Strip(joined.text)]
    ELSE [ok |-> TRUE, text |-> <<>>]

NoChat == [kind |-> "none", via |-> "", type |-> "", text |-> <<>>]
ChatReturned(via, t) == [kind |-> "returned", via |-> via, type |-> "", text |-> t]
ChatRaised(type) == [kind |-> "raised", via |-> "", type |-> type, text |-> <<>>]

\* line 344: raise _APIError(str(last)); `last` is bound only by line 318
FinalRaise(bound) == IF bound = "unbound" THEN "UnboundLocalError" ELSE "_APIError"

\* lines 307-321: the Chat Completions path
ChatPrimary ==
    /\ cph = "primary"
    /\ IF HasChatPath(client)
       THEN \E resp \in ChatResponses :
               LET r == PrimaryText(resp) IN
               /\ tried' = Append(tried, "chat.completions")
               /\ IF r.ok
                  THEN /\ chatOut' = ChatReturned("chat.completions", r.text)
                       /\ cph' = "done"
                       /\ UNCHANGED last
                  ELSE /\ last' = r.err
                       /\ cph' = "fallback"
                       /\ UNCHANGED chatOut
       ELSE /\ cph' = "fallback"
            /\ UNCHANGED <<tried, last, chatOut>>
    /\ UNCHANGED <<client, nchat, chatLog>>
    /\ UNCHANGED notChatVars

\* lines 324-344: the Responses API path, and the final raise
ChatFallback ==
    /\ cph = "fallback"
    /\ IF client.responses
       THEN \E resp \in FallbackResponses :
               LET r == FallbackText(resp) IN
               /\ tried' = Append(tried, "responses")
               /\ chatOut' = IF r.ok THEN ChatReturned("responses", r.text)
                             ELSE ChatRaised("_APIError")
       ELSE /\ chatOut' = ChatRaised(FinalRaise(last))
            /\ UNCHANGED tried
    /\ cph' = "done"
    /\ UNCHANGED <<client, nchat, last, chatLog>>
    /\ UNCHANGED notChatVars

\* lines 132 and 168: the caller's next call of _chat, on the same client
ChatAgain ==
    /\ cph = "done"
    /\ nchat < MaxChats
    /\ nchat' = nchat + 1
    /\ chatLog' = Append(chatLog, chatOut.kind)
    /\ cph' = "primary"
    /\ last' = "unbound"
    /\ tried' = <<>>
    /\ chatOut' = NoChat
    /\ UNCHANGED client
    /\ UNCHANGED notChatVars

\* ------------------------------------------------------------------ app.py
\* The SQL NULL of an id column, and the absent id of a route
NULL == 0

\* str.lower on the letters the inputs use
LowerChar(c) ==
    CASE c = "A" -> "a"
      [] c = "B" -> "b"
      [] OTHER -> c

Lower(s) == [j \in 1..Len(s) |-> LowerChar(s[j])]

LowerLetters ==
    {"a", "b", "c", "d", "e", "f", "g", "h", "i", "j", "k", "l", "m",
     "n", "o", "p", "q", "r", "s", "t", "u", "v", "w", "x", "y", "z"}

UpperLetters ==
    {"A", "B", "C", "D", "E", "F", "G", "H", "I", "J", "K", "L", "M",
     "N", "O", "P", "Q", "R", "S", "T", "U", "V", "W", "X", "Y", "Z"}

Digits == {"0", "1", "2", "3", "4", "5", "6", "7", "8", "9"}

Specials ==
    {"!", "@", "#", "$", "%", "^", "&", "*", "(", ")", "?", "/", ".", ">",
     ",", "<", "'", "\"", ";", ":", "[", "]", "{", "}", "\\", "|"}

Contains(s, class) == \E j \in 1..Len(s) : s[j] \in class

\* the password pattern of lines 74 and 307: four lookaheads, then .+
MatchesPattern(pw) ==
    /\ Contains(pw, LowerLetters)
    /\ Contains(pw, UpperLetters)
    /\ Contains(pw, Digits)
    /\ Contains(pw, Specials)
    /\ pw # <<>>

\* generate_password_hash and check_password_hash: a hash verifies the
\* password it was made from and no other
GeneratePasswordHash(pw) == [alg |-> "scrypt", of |-> pw]

NoHash == [alg |-> "none", of |-> <<>>]

CheckPasswordHash(h, pw) == h.alg = "scrypt" /\ h.of = pw

\* the session of flask: present keys only
SessionSet(sess, key, v) ==
    [x \in (DOMAIN sess) \cup {key} |-> IF x = key THEN v ELSE sess[x]]

NoSession == [x \in {} |-> NULL]

\* 'user_id' in session
LoggedIn(sess) == "user_id" \in DOMAIN sess

\* session.get('admin_logged_in') is truthy
AdminLoggedIn(sess) ==
    /\ "admin_logged_in" \in DOMAIN sess
    /\ sess["admin_logged_in"]

\* Every route runs against a database that accepts the connection of line 35.
\* a response: what the route returned, the message it flashed and the SQL
\* statements it executed
Response(route, status, kind, v, flash, db) ==
    [route |-> route, status |-> status, body |-> [kind |-> kind, v |-> v],
     flash |-> flash, db |-> db]

NoReply == Response("", 0, "none", "", "", <<>>)

\* lines 632-654: the context processor of every rendered page reads the
\* membership from the tables when the session has a user_name and no
\* membership, and caches it in the session
CtxReads(sess) ==
    /\ "user_name" \in DOMAIN sess
    /\ ("membership" \notin DOMAIN sess \/ sess["membership"] = "")

CtxDb(sess) ==
    IF CtxReads(sess) THEN <<"SELECT userdocuments">> ELSE <<>>

CtxSession(sess) ==
    IF CtxReads(sess) THEN SessionSet(sess, "membership", "Free") ELSE sess

\* render_template(page) after the route executed the statements db
Render(route, sess, page, flash, db) ==
    /\ reply' = Response(route, 200, "page", page, flash, db \o CtxDb(sess))
    /\ session' = CtxSession(sess)

\* redirect(target); nothing is rendered
Redirect(route, target, flash, db) ==
    reply' = Response(route, 302, "redirect", target, flash, db)

Methods == {"GET", "POST"}

\* form inputs
Names == {"", "ann"}

Professions == {"eng"}

Emails ==
    {<<"a", "@">>, <<"b", "@">>, <<"A", "@">>, <<" ", "a", "@">>, <<"a">>}

Passwords == {<<"a", "A", "1", "!">>, <<"b", "B", "2", "?">>, <<"a", "A", "1">>}

\* SELECT ... FROM users WHERE email = %s: the comparison of a text column
\* is exact
UsersByEmail(em) == {u \in users : u.email = em}

tablesButUsers ==
    <<admindatabase, files, folders, uploadsummarytemplates, userfeedback>>

deployment == <<schema, adminEnv>>

\* lines 55-110
Register ==
    \E method \in Methods, nm \in Names, em \in Emails, pw \in Passwords,
       cpw \in Passwords, prof \in Professions :
        /\ UNCHANGED <<deployment, tablesButUsers, notAppVars>>
        /\ IF method = "GET"
           THEN /\ Render("register", session, "register.html", "", <<>>)
                /\ UNCHANGED <<users, serial>>
           ELSE IF nm = "" \/ em = <<>> \/ pw = <<>> \/ cpw = <<>> \/ prof = ""
           THEN /\ Render("register", session, "register.html",
                          "Please fill in all fields.", <<>>)
                /\ UNCHANGED <<users, serial>>
           ELSE IF ~Contains(em, {"@"})
           THEN /\ Render("register", session, "register.html",
                          "Email must contain '@'", <<>>)
                /\ UNCHANGED <<users, serial>>
           ELSE IF ~MatchesPattern(pw)
           THEN /\ Render("register", session, "register.html",
                          "Password must contain a-z, A-Z, 0-9, and special symbols.",
                          <<>>)
                /\ UNCHANGED <<users, serial>>
           ELSE IF pw # cpw
           THEN /\ Render("register", session, "register.html",
                          "Passwords do not match.", <<>>)
                /\ UNCHANGED <<users, serial>>
           ELSE IF UsersByEmail(em) # {}
           THEN /\ Render("register", session, "register.html",
                          "Email already exists.", <<"SELECT users">>)
                /\ UNCHANGED <<users, serial>>
           ELSE /\ serial.users <= MaxUsers
                /\ users' = users \cup
                       {[userid |-> serial.users, name |-> nm, email |-> em,
                         passwordhash |-> GeneratePasswordHash(pw),
                         password |-> NoHash, profession |-> prof,
                         membership |-> "Free"]}
                /\ serial' = [serial EXCEPT !.users = @ + 1]
                /\ Redirect("register", "/login",
                            "Registered successfully! Please log in.",
                            <<"SELECT users", "INSERT users">>)
                /\ UNCHANGED session

\* lines 115-126: the submitted email is stripped and lower-cased before the
\* lookup
LoginRows(em) == UsersByEmail(Lower(Strip(em)))

\* lines 129-138: the userid a POST of em and pw logs in, NULL when the email
\* is not found or the password does not verify
LoginUser(em, pw) ==
    IF LoginRows(em) = {} THEN NULL
    ELSE LET row == CHOOSE u \in LoginRows(em) : TRUE
         IN IF CheckPasswordHash(row.passwordhash, pw) THEN row.userid ELSE NULL

\* lines 112-147
Login ==
    \E method \in Methods, em \in Emails, pw \in Passwords :
        /\ UNCHANGED <<deployment, users, tablesButUsers, serial, notAppVars>>
        /\ IF method = "GET"
           THEN Render("login", session, "login.html", "", <<>>)
           ELSE IF LoginRows(em) = {}
           THEN Render("login", session, "login.html",
                       "Email not registered.", <<"SELECT users">>)
           ELSE IF LoginUser(em, pw) = NULL
           THEN Render("login", session, "login.html",
                       "Incorrect password.", <<"SELECT users">>)
           ELSE LET row == CHOOSE u \in users : u.userid = LoginUser(em, pw)
                IN /\ session' =
                          SessionSet(SessionSet(SessionSet(SessionSet(session,
                              "user_id", row.userid),
                              "user_name", row.name),
                              "profession", row.profession),
                              "membership",
                              IF row.membership = "" THEN "Free"
                              ELSE row.membership)
                   /\ Redirect("login", "/dashboard", "", <<"SELECT users">>)

\* a logout that drops the user's keys and keeps the admin's
Logout_KeepsAdmin ==
    /\ session' = [x \in (DOMAIN session) \cap {"admin_logged_in", "admin_userid"}
                       |-> session[x]]
    /\ Redirect("logout", "/login", "You have been logged out successfully.", <<>>)
    /\ UNCHANGED <<deployment, users, tablesButUsers, serial, notAppVars>>

\* lines 154-158
Logout ==
    /\ session' = NoSession
    /\ Redirect("logout", "/login", "You have been logged out successfully.", <<>>)
    /\ UNCHANGED <<deployment, users, tablesButUsers, serial, notAppVars>>

\* lines 294-339: the UPDATE of line 327 writes the column password, which a
\* users table has or has not; login reads the column passwordhash
ForgotPassword ==
    \E method \in Methods, em \in Emails, pw \in Passwords, cpw \in Passwords :
        /\ UNCHANGED <<deployment, tablesButUsers, serial, notAppVars>>
        /\ IF method = "GET"
           THEN /\ Render("forgot_password", session, "forgot_password.html",
                          "", <<>>)
                /\ UNCHANGED users
           ELSE IF ~Contains(Strip(em), {"@"})
           THEN /\ Render("forgot_password", session, "forgot_password.html",
                          "Invalid email format", <<>>)
                /\ UNCHANGED users
           ELSE IF ~MatchesPattern(pw)
           THEN /\ Render("forgot_password", session, "forgot_password.html",
                          "Password must contain a-z, A-Z, 0-9 and special symbols.",
                          <<>>)
                /\ UNCHANGED users
           ELSE IF pw # cpw
           THEN /\ Render("forgot_password", session, "forgot_password.html",
                          "Passwords do not match.", <<>>)
                /\ UNCHANGED users
           ELSE IF UsersByEmail(Strip(em)) = {}
           THEN /\ Render("forgot_password", session, "forgot_password.html",
                          "Email is not registered.", <<"SELECT users">>)
                /\ UNCHANGED users
           ELSE IF ~schema.password
           THEN /\ Render("forgot_password", session, "forgot_password.html",
                          "Error", <<"SELECT users", "UPDATE users">>)
                /\ UNCHANGED users
           ELSE /\ users' =
                       {IF u.email = Strip(em)
                        THEN [u EXCEPT !.password = GeneratePasswordHash(pw)]
                        ELSE u : u \in users}
                /\ Redirect("forgot_password", "/login",
                            "Password has been reset successfully. Please log in.",
                            <<"SELECT users", "UPDATE users">>)
                /\ UNCHANGED session

\* int(s) on the form values the inputs use; NULL where it raises
FormInts == {"", "x", "1", "2"}

IntOf(s) ==
    CASE s = "1" -> 1
      [] s = "2" -> 2
      [] OTHER -> NULL

\* the referential constraints of the tables, where the deployment has them:
\* a file names an existing user and, unless NULL, an existing folder; a
\* folder and a feedback row name an existing user
FkOk(us, fs, fo, fb) ==
    \/ ~schema.fk
    \/ /\ \A f \in fs :
            /\ \E u \in us : u.userid = f.userid
            /\ f.folderid = NULL \/ \E c \in fo : c.folderid = f.folderid
       /\ \A c \in fo : \E u \in us : u.userid = c.userid
       /\ \A r \in fb : \E u \in us : u.userid = r.userid

\* lines 160-195
Dashboard ==
    /\ UNCHANGED <<deployment, users, tablesButUsers, serial, notAppVars>>
        /\ IF ~LoggedIn(session)
           THEN /\ Redirect("dashboard", "/login", "", <<>>)
                /\ UNCHANGED session
           ELSE LET rows == {u \in users : u.userid = session["user_id"]}
                    membership ==
                        IF rows = {} THEN "Free"
                        ELSE LET row == CHOOSE u \in rows : TRUE
                             IN IF row.membership = "" THEN "Free"
                                ELSE row.membership
                IN Render("dashboard", SessionSet(session, "membership", membership),
                          "dashboard.html", "",
                          <<"SELECT files", "SELECT users">>)

\* line 31
AllowedFile(filename) == filename \in {"a.pdf", "../c.docx"}

\* secure_filename of line 223 on the file names the inputs use
SecureFilename(filename) ==
    CASE filename = "../c.docx" -> "c.docx"
      [] OTHER -> filename

Filenames == {"", "a.pdf", "../c.docx", "b.txt"}

Contents == {"%PDF"}

\* the selections of the file input: none, one file, several files
Uploads ==
    {<<>>} \cup {<<f>> : f \in Filenames} \cup
    {<<"b.txt", "a.pdf">>, <<"a.pdf", "../c.docx">>}

\* lines 221-228: the rows the loop inserts, file ids from fid on
RECURSIVE UploadedRows(_, _, _, _)
UploadedRows(list, fid, uid, folder) ==
    IF list = <<>> THEN {}
    ELSE IF AllowedFile(Head(list))
    THEN {[fileid |-> fid, userid |-> uid, folderid |-> folder,
           filename |-> SecureFilename(Head(list)),
           attachment |-> CHOOSE c \in Contents : TRUE]}
         \cup UploadedRows(Tail(list), fid + 1, uid, folder)
    ELSE UploadedRows(Tail(list), fid, uid, folder)

\* lines 199-236
UploadDocument ==
    \E list \in Uploads, folder_id_raw \in FormInts :
        /\ UNCHANGED <<deployment, users, admindatabase, folders,
                       uploadsummarytemplates, userfeedback, session, notAppVars>>
        /\ IF ~LoggedIn(session)
           THEN /\ Redirect("upload_document", "/login", "", <<>>)
                /\ UNCHANGED <<files, serial>>
           ELSE IF list = <<>> \/ Head(list) = ""
           THEN /\ Redirect("upload_document", "/dashboard", "No file selected", <<>>)
                /\ UNCHANGED <<files, serial>>
           ELSE LET rows == UploadedRows(list, serial.files, session["user_id"],
                                         IntOf(folder_id_raw))
                    stmts == [j \in 1..Cardinality(rows) |-> "INSERT files"]
                IN /\ serial.files + Cardinality(rows) <= MaxFiles + 1
                   /\ IF FkOk(users, files \cup rows, folders, userfeedback)
                      THEN /\ files' = files \cup rows
                           /\ serial' = [serial EXCEPT
                                  !.files = @ + Cardinality(rows)]
                           /\ Redirect("upload_document", "/dashboard",
                                       "Files uploaded", stmts)
                      ELSE /\ UNCHANGED files
                           /\ serial' = [serial EXCEPT !.files = @ + 1]
                           /\ Redirect("upload_document", "/dashboard",
                                       "Upload failed", <<"INSERT files">>)

\* lines 254-262
ContentType(filename) ==
    CASE filename = "a.pdf" -> "application/pdf"
      [] filename = "c.docx" ->
            "application/vnd.openxmlformats-officedocument.wordprocessingml.document"
      [] OTHER -> "application/octet-stream"

DocIds == 1..MaxFiles

\* lines 239-268: no line of the route reads the session
ViewDocument ==
    \E doc_id \in DocIds :
        /\ UNCHANGED <<deployment, users, tablesButUsers, serial, session,
                       notAppVars>>
        /\ IF {f \in files : f.fileid = doc_id} = {}
           THEN reply' = Response("view_document", 404, "text", "Not found", "",
                                  <<"SELECT files">>)
           ELSE LET row == CHOOSE f \in files : f.fileid = doc_id
                IN reply' = [route |-> "view_document", status |-> 200,
                             body |-> [kind |-> "bytes", v |-> row.attachment,
                                       ctype |-> ContentType(row.filename),
                                       filename |-> row.filename,
                                       doc_id |-> doc_id],
                             flash |-> "", db |-> <<"SELECT files">>]

\* lines 273-290
DeleteDocument ==
    \E doc_id \in DocIds :
        /\ UNCHANGED <<deployment, users, admindatabase, folders,
                       uploadsummarytemplates, userfeedback, serial, session,
                       notAppVars>>
        /\ IF ~LoggedIn(session)
           THEN /\ Redirect("delete_document", "/login", "", <<>>)
                /\ UNCHANGED files
           ELSE LET mine == {f \in files : f.fileid = doc_id
                                           /\ f.userid = session["user_id"]}
                IN IF mine # {}
                   THEN /\ files' = files \ mine
                        /\ Redirect("delete_document", "/dashboard",
                                    "Document deleted",
                                    <<"SELECT files", "DELETE files">>)
                   ELSE /\ UNCHANGED files
                        /\ Redirect("delete_document", "/dashboard", "",
                                    <<"SELECT files">>)

FolderNames == {<<" ">>, <<" ", "f">>}

\* lines 769-788
AddCategory ==
    \E nm \in FolderNames :
        /\ UNCHANGED <<deployment, users, admindatabase, files,
                       uploadsummarytemplates, userfeedback, session, notAppVars>>
        /\ IF ~LoggedIn(session)
           THEN /\ reply' = Response("add_category", 401, "json", "Not logged in",
                                     "", <<>>)
                /\ UNCHANGED <<folders, serial>>
           ELSE IF Strip(nm) = <<>>
           THEN /\ reply' = Response("add_category", 400, "json", "Invalid name",
                                     "", <<>>)
                /\ UNCHANGED <<folders, serial>>
           ELSE LET row == [folderid |-> serial.folders,
                            userid |-> session["user_id"],
                            foldername |-> Strip(nm)]
                IN /\ serial.folders <= MaxFolders
                   /\ serial' = [serial EXCEPT !.folders = @ + 1]
                   /\ IF FkOk(users, files, folders \cup {row}, userfeedback)
                      THEN /\ folders' = folders \cup {row}
                           /\ reply' = Response("add_category", 200, "json",
                                                "success", "", <<"INSERT folders">>)
                      ELSE /\ UNCHANGED folders
                           /\ reply' = Response("add_category", 500, "json",
                                                "error", "", <<"INSERT folders">>)

\* the documentId and category of the JSON body of line 796
DocumentIds == {NULL} \cup DocIds

Categories == {"null", "all", "1", "2", "x"}

\* lines 791-817: the folder id of line 809 is not compared with the folders
\* of the session's user
UpdateDocumentCategory ==
    \E document_id \in DocumentIds, category \in Categories :
        /\ UNCHANGED <<deployment, users, admindatabase, folders,
                       uploadsummarytemplates, userfeedback, serial, session,
                       notAppVars>>
        /\ IF ~LoggedIn(session)
           THEN /\ reply' = Response("update_document_category", 401, "json",
                                     "Not logged in", "", <<>>)
                /\ UNCHANGED files
           ELSE IF document_id = NULL
           THEN /\ reply' = Response("update_document_category", 400, "json",
                                     "Missing documentId", "", <<>>)
                /\ UNCHANGED files
           ELSE IF category \notin {"null", "all"} /\ IntOf(category) = NULL
           THEN /\ reply' = Response("update_document_category", 400, "json",
                                     "Invalid folder id", "", <<>>)
                /\ UNCHANGED files
           ELSE LET folderid == IF category \in {"null", "all"} THEN NULL
                                ELSE IntOf(category)
                    updated ==
                        {IF f.fileid = document_id /\ f.userid = session["user_id"]
                         THEN [f EXCEPT !.folderid = folderid]
                         ELSE f : f \in files}
                IN IF FkOk(users, updated, folders, userfeedback)
                   THEN /\ files' = updated
                        /\ reply' = Response("update_document_category", 200,
                                             "json", "success", "",
                                             <<"UPDATE files">>)
                   ELSE /\ UNCHANGED files
                        /\ reply' = Response("update_document_category", 500,
                                             "json", "error", "",
                                             <<"UPDATE files">>)

CategoryIds == 1..MaxFolders

\* lines 839-854
DeleteCategory ==
    \E category_id \in CategoryIds :
        /\ UNCHANGED <<deployment, users, admindatabase, uploadsummarytemplates,
                       userfeedback, serial, session, notAppVars>>
        /\ IF ~LoggedIn(session)
           THEN /\ reply' = Response("delete_category", 401, "json",
                                     "Not logged in", "", <<>>)
                /\ UNCHANGED <<files, folders>>
           ELSE LET updated ==
                        {IF f.folderid = category_id
                            /\ f.userid = session["user_id"]
                         THEN [f EXCEPT !.folderid = NULL]
                         ELSE f : f \in files}
                    kept == {c \in folders :
                                ~(c.folderid = category_id
                                  /\ c.userid = session["user_id"])}
                IN IF FkOk(users, updated, kept, userfeedback)
                   THEN /\ files' = updated
                        /\ folders' = kept
                        /\ reply' = Response("delete_category", 200, "json",
                                             "success", "",
                                             <<"UPDATE files", "DELETE folders">>)
                   ELSE /\ UNCHANGED <<files, folders>>
                        /\ reply' = Response("delete_category", 500, "json",
                                             "error", "",
                                             <<"UPDATE files", "DELETE folders">>)

\* a form field that was not sent, and one that was
None == [t |-> "None", s |-> ""]

Str(x) == [t |-> "str", s |-> x]

AdminUsernames == {None, Str("admin")}

AdminPasswords == {None, Str("Admin@123"), Str("guess")}

\* ADMIN_USERNAME and ADMIN_PASSWORD of lines 28-29, as the environment
\* sets them
AdminEnv == [username |-> Str("root"), password |-> Str("Root#1")]

\* the admindatabase table with the row add_admin.py writes
AdminTable ==
    {[adminid |-> 1, userid |-> NULL, username |-> Str("admin"),
      passwordhash |-> GeneratePasswordHash("Admin@123")]}

tables == <<users, admindatabase, files, folders, uploadsummarytemplates,
            userfeedback>>

\* lines 342-375
AdminLogin ==
    \E method \in Methods, username \in AdminUsernames \cup {Str("root")},
       pw \in AdminPasswords \cup {Str("Root#1")} :
        /\ UNCHANGED <<deployment, tables, serial, notAppVars>>
        /\ IF method = "GET"
           THEN Render("admin_login", session, "admin_login.html", "", <<>>)
           ELSE LET rows == {a \in admindatabase : a.username = username}
                IN IF rows # {}
                   THEN LET row == CHOOSE a \in rows : TRUE
                        IN IF pw = None
                           THEN Render("admin_login", session,
                                       "admin_login.html", "Admin login failed",
                                       <<"SELECT admindatabase">>)
                           ELSE IF CheckPasswordHash(row.passwordhash, pw.s)
                           THEN /\ session' =
                                       SessionSet(SessionSet(session,
                                           "admin_logged_in", TRUE),
                                           "admin_userid", row.userid)
                                /\ Redirect("admin_login", "/admin", "",
                                            <<"SELECT admindatabase">>)
                           ELSE Render("admin_login", session,
                                       "admin_login.html",
                                       "Invalid admin credentials",
                                       <<"SELECT admindatabase">>)
                   ELSE IF username = adminEnv.username /\ pw = adminEnv.password
                   THEN /\ session' = SessionSet(session, "admin_logged_in", TRUE)
                        /\ Redirect("admin_login", "/admin", "",
                                    <<"SELECT admindatabase">>)
                   ELSE Render("admin_login", session, "admin_login.html",
                               "Invalid admin credentials",
                               <<"SELECT admindatabase">>)

\* lines 385-399: the SELECT names the column id of users
AdminUsers ==
    /\ UNCHANGED <<deployment, tables, serial, notAppVars>>
        /\ IF ~AdminLoggedIn(session)
           THEN /\ Redirect("admin_users", "/admin-login", "", <<>>)
                /\ UNCHANGED session
           ELSE IF ~schema.id
           THEN Render("admin_users", session, "admin_users.html",
                       "Error loading user data", <<"SELECT users">>)
           ELSE Render("admin_users", session, "admin_users.html", "",
                       <<"SELECT users">>)

UserIds == 1..MaxUsers

\* lines 402-416: the DELETE names the column id of users
DeleteUser ==
    \E user_id \in UserIds :
        /\ UNCHANGED <<deployment, tablesButUsers, serial, session, notAppVars>>
        /\ IF ~AdminLoggedIn(session)
           THEN /\ Redirect("delete_user", "/admin-login", "", <<>>)
                /\ UNCHANGED users
           ELSE LET kept == {u \in users : u.userid # user_id}
                IN IF schema.id /\ FkOk(kept, files, folders, userfeedback)
                   THEN /\ users' = kept
                        /\ Redirect("delete_user", "/admin",
                                    "User deleted successfully",
                                    <<"DELETE users">>)
                   ELSE /\ UNCHANGED users
                        /\ Redirect("delete_user", "/admin",
                                    "Failed to delete user", <<"DELETE users">>)

\* the form value of plan_id: a field that was not sent is None
PlanInputs == {None} \cup {Str(x) : x \in FormInts}

\* the plans table, which no route writes
Plans == {[planid |-> 1, name |-> "Pro"]}

\* lines 438-447: int(plan_id) is outside any try
SelectPlan ==
    \E plan_id \in PlanInputs :
        /\ UNCHANGED <<deployment, tables, serial, notAppVars>>
        /\ IF ~LoggedIn(session)
           THEN /\ Redirect("select_plan", "/login", "", <<>>)
                /\ UNCHANGED session
           ELSE IF plan_id = None \/ plan_id.s = ""
           THEN /\ Redirect("select_plan", "/membership", "No plan selected", <<>>)
                /\ UNCHANGED session
           ELSE IF IntOf(plan_id.s) = NULL
           THEN /\ reply' = Response("select_plan", 500, "text",
                                     "Internal Server Error", "", <<>>)
                /\ UNCHANGED session
           ELSE /\ session' = SessionSet(session, "selected_plan_id",
                                         IntOf(plan_id.s))
                /\ Redirect("select_plan", "/payment", "", <<>>)

\* the card_expiry values of line 520 and whether lines 529-531 parse them
Expiries == {"", "12/30", "1230"}

ExpiryParses(e) == e = "12/30"

\* lines 508-589: datetime and timedelta are not imported, so line 550 raises
\* NameError inside the try and no row is inserted
PaymentProcess ==
    \E cardFields \in BOOLEAN, card_expiry \in Expiries :
        /\ UNCHANGED <<deployment, tables, serial, session, notAppVars>>
        /\ IF ~LoggedIn(session)
           THEN Redirect("payment_process", "/login", "", <<>>)
           ELSE IF "selected_plan_id" \notin DOMAIN session
           THEN Redirect("payment_process", "/membership", "", <<>>)
           ELSE IF ~cardFields \/ card_expiry = ""
           THEN Redirect("payment_process", "/payment",
                         "All card fields required", <<>>)
           ELSE IF ~ExpiryParses(card_expiry)
           THEN Redirect("payment_process", "/payment",
                         "Invalid expiry format", <<>>)
           ELSE IF {p \in Plans : p.planid = session["selected_plan_id"]} = {}
           THEN Redirect("payment_process", "/membership", "Plan not found",
                         <<"SELECT plans">>)
           ELSE Redirect("payment_process", "/payment",
                         "Payment processing failed", <<"SELECT plans">>)

\* lines 657-674
ManageTemplates ==
    /\ UNCHANGED <<deployment, tables, serial, notAppVars>>
        /\ IF ~AdminLoggedIn(session)
           THEN /\ Redirect("manage_templates", "/admin-login", "", <<>>)
                /\ UNCHANGED session
           ELSE Render("manage_templates", session,
                       "template_management.html", "",
                       <<"SELECT uploadsummarytemplates">>)

TemplateNames == {"t", "t2"}

TemplateIds == 1..MaxTemplates

tablesButTemplates ==
    <<users, admindatabase, files, folders, userfeedback>>

\* lines 678-697
CreateTemplate ==
    \E nm \in TemplateNames :
        /\ UNCHANGED <<deployment, tablesButTemplates, session, notAppVars>>
        /\ IF ~AdminLoggedIn(session)
           THEN /\ Redirect("create_template", "/admin-login", "", <<>>)
                /\ UNCHANGED <<uploadsummarytemplates, serial>>
           ELSE /\ serial.templates <= MaxTemplates
                /\ uploadsummarytemplates' = uploadsummarytemplates \cup
                       {[summarytemplateid |-> serial.templates,
                         templatename |-> nm,
                         createdby |-> IF LoggedIn(session)
                                       THEN session["user_id"] ELSE NULL]}
                /\ serial' = [serial EXCEPT !.templates = @ + 1]
                /\ Redirect("create_template", "/admin/templates", "",
                            <<"INSERT uploadsummarytemplates">>)

\* lines 701-721
EditTemplate ==
    \E id \in TemplateIds, nm \in TemplateNames :
        /\ UNCHANGED <<deployment, tablesButTemplates, serial, session, notAppVars>>
        /\ IF ~AdminLoggedIn(session)
           THEN /\ Redirect("edit_template", "/admin-login", "", <<>>)
                /\ UNCHANGED uploadsummarytemplates
           ELSE /\ uploadsummarytemplates' =
                       {IF r.summarytemplateid = id
                        THEN [r EXCEPT !.templatename = nm]
                        ELSE r : r \in uploadsummarytemplates}
                /\ Redirect("edit_template", "/admin/templates", "",
                            <<"UPDATE uploadsummarytemplates">>)

\* lines 726-739
DeleteTemplate ==
    \E id \in TemplateIds :
        /\ UNCHANGED <<deployment, tablesButTemplates, serial, session, notAppVars>>
        /\ IF ~AdminLoggedIn(session)
           THEN /\ Redirect("delete_template", "/admin-login", "", <<>>)
                /\ UNCHANGED uploadsummarytemplates
           ELSE /\ uploadsummarytemplates' =
                       {r \in uploadsummarytemplates : r.summarytemplateid # id}
                /\ Redirect("delete_template", "/admin/templates", "",
                            <<"DELETE uploadsummarytemplates">>)

Ratings == {"5"}

\* lines 858-883
Feedback ==
    \E method \in Methods, rating \in Ratings :
        /\ UNCHANGED <<deployment, users, admindatabase, files, folders,
                       uploadsummarytemplates, notAppVars>>
        /\ IF ~LoggedIn(session)
           THEN /\ Redirect("feedback", "/login", "", <<>>)
                /\ UNCHANGED <<userfeedback, serial, session>>
           ELSE IF method = "GET"
           THEN /\ Render("feedback", session, "feedback.html", "", <<>>)
                /\ UNCHANGED <<userfeedback, serial>>
           ELSE LET row == [feedbackid |-> serial.feedback,
                            userid |-> session["user_id"], rating |-> rating]
                IN /\ serial.feedback <= MaxFeedback
                   /\ serial' = [serial EXCEPT !.feedback = @ + 1]
                   /\ IF FkOk(users, files, folders, userfeedback \cup {row})
                      THEN /\ userfeedback' = userfeedback \cup {row}
                           /\ Redirect("feedback", "/dashboard",
                                       "Thanks for your feedback!",
                                       <<"INSERT userfeedback">>)
                           /\ UNCHANGED session
                      ELSE /\ UNCHANGED userfeedback
                           /\ Render("feedback", session, "feedback.html",
                                     "Feedback save failed",
                                     <<"INSERT userfeedback">>)

\* ------------------------------------------------------------- inputs
Alphabet == {"A", ".", " ", "\n"}
Texts == UNION {[1..n -> Alphabet] : n \in 0..MaxTextLen}

\* The values given to _enforce_sentence_length: n words separated by sep and
\* padded by pad, all "w" but word SENTENCE_MAX_WORDS (where the cut falls)
\* and the last word.
CutWords ==
    {<<"w">>, <<"w", ",">>, <<"w", ".">>, <<"w", "!">>, <<",">>, <<";", ":">>,
     <<"w", ".", ",">>, <<"?">>}
LastWords == {<<"w">>, <<"w", ".">>, <<"w", ";">>}
Separators == {<<" ">>, <<" ", " ">>, <<"\n">>}
Pads == {<<>>, <<" ">>}
Sentence(n, cutw, lastw, sep, pad) ==
    pad \o Join([j \in 1..n |-> IF j = SENTENCE_MAX_WORDS THEN cutw
                                 ELSE IF j = n THEN lastw ELSE <<"w">>], sep) \o pad
Sentences ==
    {Sentence(n, cutw, lastw, sep, pad) :
        n \in 0..(SENTENCE_MAX_WORDS + MaxExtraWords),
        cutw \in CutWords, lastw \in LastWords, sep \in Separators, pad \in Pads}

\* ------------------------------------------------------- specifications
SplitIdle ==
    /\ text = <<>> /\ max_len = 1 /\ overlap = 0 /\ spc = "idle"
    /\ paras = <<>> /\ sents = <<>> /\ chunks = <<>> /\ buf = <<>>
    /\ cur = 0 /\ final = <<>> /\ k = 1 /\ i = 0

SplitArgs ==
    /\ text \in Texts
    /\ max_len \in 1..MaxMaxLen
    /\ overlap \in 0..MaxOverlap
    /\ spc = "start"
    /\ paras = <<>> /\ sents = <<>> /\ chunks = <<>> /\ buf = <<>>
    /\ cur = 0 /\ final = <<>> /\ k = 1 /\ i = 0

TmplIdle ==
    /\ template = [kind |-> "missing", sections |-> <<>>]
    /\ tph = "idle"
    /\ instr = [ok |-> FALSE, err |-> "", text |-> <<>>, shape |-> <<>>]
    /\ dataKind = "none"
    /\ nblocks = 0
    /\ source_blocks = <<>>
    /\ overwrote = FALSE
    /\ result = [ok |-> FALSE, err |-> "", blocks |-> <<>>]

RunIdle ==
    /\ runTemplate = [kind |-> "missing", sections |-> <<>>]
    /\ nChunks = 0 /\ rpc = "idle" /\ idx = 1 /\ notes = <<>> /\ attempt = 0
    /\ last_err = NoErr /\ log = <<>> /\ raw = NoResp /\ data = <<>>
    /\ outcome = [kind |-> "none", json |-> <<>>, text |-> <<>>, err |-> NoErr]

SentIdle == sentence = <<>> /\ eph = "idle" /\ shortened = <<>>

ChatIdle ==
    /\ client = [chat |-> FALSE, completions |-> FALSE, responses |-> FALSE]
    /\ cph = "idle" /\ nchat = 0 /\ last = "unbound" /\ tried = <<>>
    /\ chatOut = NoChat /\ chatLog = <<>>

AppIdle ==
    /\ schema = [id |-> FALSE, password |-> FALSE, fk |-> FALSE]
    /\ adminEnv = [username |-> None, password |-> None]
    /\ session = NoSession
    /\ users = {} /\ admindatabase = {} /\ files = {} /\ folders = {}
    /\ uploadsummarytemplates = {} /\ userfeedback = {}
    /\ serial = [users |-> 1, files |-> 1, folders |-> 1, templates |-> 1,
                 feedback |-> 1]
    /\ reply = NoReply

\* _smart_split on every text, max_len and overlap of the bounds
SplitInit == SplitArgs /\ TmplIdle /\ RunIdle /\ SentIdle /\ ChatIdle /\ AppIdle

SplitNext ==
    \/ SplitEnter
    \/ ParaStep
    \/ SentStep
    \/ SentsDone
    \/ FlushFinal
    \/ FinalStep
    \/ SliceStep
    \/ SliceDone
    \/ SplitReturn

SpecSplit == SplitInit /\ [][SplitNext]_vars

\* _make_output_instructions on every template of the bounds
InstrInit ==
    /\ SplitIdle
    /\ AppIdle
    /\ RunIdle
    /\ SentIdle
    /\ ChatIdle
    /\ template \in Templates
    /\ tph = "instr"
    /\ instr = [ok |-> FALSE, err |-> "", text |-> <<>>, shape |-> <<>>]
    /\ dataKind = "none"
    /\ nblocks = 0
    /\ source_blocks = <<>>
    /\ overwrote = FALSE
    /\ result = [ok |-> FALSE, err |-> "", blocks |-> <<>>]

InstrNext == MakeInstructions

SpecInstr == InstrInit /\ [][InstrNext]_vars

\* _parse_repair_and_lock_schema on every response and template of the bounds
ParseInit ==
    /\ SplitIdle
    /\ AppIdle
    /\ RunIdle
    /\ SentIdle
    /\ ChatIdle
    /\ template = [kind |-> "missing", sections |-> <<>>]
    /\ tph = "parse"
    /\ instr = [ok |-> FALSE, err |-> "", text |-> <<>>, shape |-> <<>>]
    /\ dataKind = "none"
    /\ nblocks = 0
    /\ source_blocks = <<>>
    /\ overwrote = FALSE
    /\ result = [ok |-> FALSE, err |-> "", blocks |-> <<>>]

ParseNext ==
    \/ ParseEnter
    \/ BlockStep
    \/ LockStep

SpecParse == ParseInit /\ [][ParseNext]_vars

\* one summarize_document run: line 120 has split the text into nChunks
\* chunks (none for a blank text longer than a chunk) and the loop of line 123
\* is about to start
RunInit ==
    /\ SplitIdle
    /\ AppIdle
    /\ TmplIdle
    /\ SentIdle
    /\ ChatIdle
    /\ runTemplate \in RunTemplates
    /\ nChunks \in 0..MaxChunks
    /\ rpc = "chunks" /\ idx = 1 /\ notes = <<>> /\ attempt = 0
    /\ last_err = NoErr /\ log = <<>> /\ raw = NoResp /\ data = <<>>
    /\ outcome = [kind |-> "none", json |-> <<>>, text |-> <<>>, err |-> NoErr]

RunNext ==
    \/ ChunkCall
    \/ ChunksDone
    \/ ConsolidateAttempt
    \/ ParseStep
    \/ RenderStep

SpecRun == RunInit /\ [][RunNext]_vars

\* _enforce_sentence_length on every value of Sentences
SentInit ==
    /\ SplitIdle
    /\ AppIdle
    /\ TmplIdle
    /\ RunIdle
    /\ ChatIdle
    /\ sentence \in Sentences
    /\ eph = "call"
    /\ shortened = <<>>

SentNext == EnforceLength

SpecSent == SentInit /\ [][SentNext]_vars

\* successive _chat calls on every client of Clients
ChatInit ==
    /\ SplitIdle
    /\ AppIdle
    /\ TmplIdle
    /\ RunIdle
    /\ SentIdle
    /\ client \in Clients
    /\ cph = "primary" /\ nchat = 1 /\ last = "unbound" /\ tried = <<>>
    /\ chatOut = NoChat /\ chatLog = <<>>

ChatNext ==
    \/ ChatPrimary
    \/ ChatFallback
    \/ ChatAgain

SpecChat == ChatInit /\ [][ChatNext]_vars

\* lines 120-123: _smart_split has returned its chunks to
\* _summarize_in_chunks_to_notes and the loop over them starts.  From here on
\* the run reads the number of chunks only (the notes stand for their texts),
\* so the splitter's locals and the text are dropped; the template is first
\* read at line 157 and is drawn here.
RunEnter ==
    /\ spc = "done"
    /\ rpc = "idle"
    /\ nChunks' = Len(final)
    /\ runTemplate' \in RunTemplates
    /\ rpc' = "chunks"
    /\ spc' = "idle"
    /\ text' = <<>> /\ paras' = <<>> /\ sents' = <<>> /\ chunks' = <<>> /\ buf' = <<>>
    /\ cur' = 0 /\ final' = <<>> /\ k' = 1 /\ i' = 0
    /\ UNCHANGED <<max_len, overlap>>
    /\ UNCHANGED <<idx, notes, attempt, last_err, log, raw, data, outcome>>
    /\ UNCHANGED <<tmplVars, sentVars, chatVars, appVars>>

\* summarize_document from the split of the text to its return or raise
DocInit == SplitArgs /\ TmplIdle /\ RunIdle /\ SentIdle /\ ChatIdle /\ AppIdle

DocNext ==
    \/ SplitEnter
    \/ ParaStep
    \/ SentStep
    \/ SentsDone
    \/ FlushFinal
    \/ FinalStep
    \/ SliceStep
    \/ SliceDone
    \/ SplitReturn
    \/ RunEnter
    \/ ChunkCall
    \/ ChunksDone
    \/ ConsolidateAttempt
    \/ ParseStep
    \/ RenderStep

\* The run is one thread of straight-line code: while a step of it can be
\* taken, one is taken; a model call that has been issued returns or fails.
SpecDoc == DocInit /\ [][DocNext]_vars /\ WF_vars(DocNext)

\* the users table after two registrations
RegisteredUsers ==
    {[userid |-> 1, name |-> "ann", email |-> <<"a", "@">>,
      passwordhash |-> GeneratePasswordHash(<<"a", "A", "1", "!">>),
      password |-> NoHash, profession |-> "eng", membership |-> "Free"],
     [userid |-> 2, name |-> "ann", email |-> <<"b", "@">>,
      passwordhash |-> GeneratePasswordHash(<<"b", "B", "2", "?">>),
      password |-> NoHash, profession |-> "eng", membership |-> "Free"]}

\* register, login, logout and forgot_password on an empty users table that
\* has or has not the column password
AccountsInit ==
    /\ SplitIdle
    /\ TmplIdle
    /\ RunIdle
    /\ SentIdle
    /\ ChatIdle
    /\ schema \in {d \in [id : BOOLEAN, password : BOOLEAN, fk : BOOLEAN] :
                      ~d.id /\ ~d.fk}
    /\ adminEnv = [username |-> None, password |-> None]
    /\ session = NoSession
    /\ users = {} /\ admindatabase = {} /\ files = {} /\ folders = {}
    /\ uploadsummarytemplates = {} /\ userfeedback = {}
    /\ serial = [users |-> 1, files |-> 1, folders |-> 1, templates |-> 1,
                 feedback |-> 1]
    /\ reply = NoReply

AccountsNext ==
    \/ Register
    \/ Login
    \/ Logout
    \/ ForgotPassword

SpecAccounts == AccountsInit /\ [][AccountsNext]_vars

\* the session, document and category routes on a fresh browser session, two
\* registered users and no documents, with or without referential constraints
DocumentsInit ==
    /\ SplitIdle
    /\ TmplIdle
    /\ RunIdle
    /\ SentIdle
    /\ ChatIdle
    /\ schema \in {d \in [id : BOOLEAN, password : BOOLEAN, fk : BOOLEAN] :
                      ~d.id /\ ~d.password}
    /\ adminEnv = [username |-> None, password |-> None]
    /\ admindatabase = {}
    /\ session = NoSession
    /\ users = RegisteredUsers
    /\ files = {} /\ folders = {}
    /\ uploadsummarytemplates = {} /\ userfeedback = {}
    /\ serial = [users |-> 3, files |-> 1, folders |-> 1, templates |-> 1,
                 feedback |-> 1]
    /\ reply = NoReply

DocumentsNext ==
    \/ Login
    \/ Logout
    \/ Dashboard
    \/ UploadDocument
    \/ ViewDocument
    \/ DeleteDocument
    \/ AddCategory
    \/ UpdateDocumentCategory
    \/ DeleteCategory

SpecDocuments == DocumentsInit /\ [][DocumentsNext]_vars

\* every route that tests the session, with login, logout and admin_login,
\* on a fresh browser session, one registered user and otherwise empty
\* tables but the admin's; the users table has or has not the column id
AppInit ==
    /\ SplitIdle
    /\ TmplIdle
    /\ RunIdle
    /\ SentIdle
    /\ ChatIdle
    /\ schema \in {d \in [id : BOOLEAN, password : BOOLEAN, fk : BOOLEAN] :
                      ~d.password /\ ~d.fk}
    /\ adminEnv = AdminEnv
    /\ admindatabase = AdminTable
    /\ session = NoSession
    /\ users = {u \in RegisteredUsers : u.userid = 1}
    /\ files = {} /\ folders = {}
    /\ uploadsummarytemplates = {} /\ userfeedback = {}
    /\ serial = [users |-> 2, files |-> 1, folders |-> 1, templates |-> 1,
                 feedback |-> 1]
    /\ reply = NoReply

AppNext ==
    \/ Login
    \/ Logout
    \/ Dashboard
    \/ UploadDocument
    \/ ViewDocument
    \/ DeleteDocument
    \/ AdminLogin
    \/ AdminUsers
    \/ DeleteUser
    \/ SelectPlan
    \/ PaymentProcess
    \/ ManageTemplates
    \/ CreateTemplate
    \/ EditTemplate
    \/ DeleteTemplate
    \/ AddCategory
    \/ UpdateDocumentCategory
    \/ DeleteCategory
    \/ Feedback

SpecApp == AppInit /\ [][AppNext]_vars

\* ------------------------------------------------- claims on _smart_split
\* C7: every chunk _smart_split returns (and every chunk it has collected so
\* far) is at most max_len characters long, for max_len >= 1 and overlap >= 0.
C7_ChunksWithinMaxLen ==
    \A j \in 1..Len(final) : Len(final[j]) <= max_len

\* C7 witness: a packed chunk that carried an overlap tail exceeded max_len
\* and was hard-sliced into the returned chunks.
C7_Witness ==
    /\ spc = "done"
    /\ overlap > 0
    /\ Len(chunks) >= 2
    /\ \E j \in 2..Len(chunks) : Len(chunks[j]) > max_len
    /\ Len(final) > Len(chunks)

\* the ways to cut from chunk c an overlap region of at most o characters that
\* is a copy of the end of the previous chunk
OverlapCuts(prev, c, o) ==
    {n \in 0..o : /\ n <= Len(c)
                  /\ n <= Len(prev)
                  /\ SubSeq(c, 1, n) = SubSeq(prev, Len(prev) - n + 1, Len(prev))}

\* every text that the chunks cs concatenate to once an overlap region is
\* removed from each chunk but the first
RECURSIVE Reassemblies(_, _)
Reassemblies(cs, o) ==
    IF cs = <<>> THEN {<<>>}
    ELSE IF Len(cs) = 1 THEN {cs[1]}
    ELSE LET n == Len(cs) IN
         {r \o SubSeq(cs[n], c + 1, Len(cs[n])) :
             r \in Reassemblies(SubSeq(cs, 1, n - 1), o),
             c \in OverlapCuts(cs[n - 1], cs[n], o)}

\* C8 (as claimed): the returned chunks, with the overlap regions removed,
\* concatenate to exactly the original text.
C8_ChunksReassembleText ==
    spc = "done" => text \in Reassemblies(final, overlap)

\* C9: a text shorter than max_len comes back as exactly one chunk, equal to
\* the text, whatever the overlap.
C9_ShortTextOneChunk ==
    (spc = "done" /\ Len(text) < max_len) => final = <<text>>

\* C9 witness: a non-empty text below max_len was split with an overlap set.
C9_Witness ==
    /\ spc = "done"
    /\ text # <<>>
    /\ Len(text) < max_len
    /\ overlap > 0


\* ------------------------------- claims on _make_output_instructions
\* the Template has no `sections` list, or a section whose heading is empty
\* after normalization or whose item list is empty
NoListOrBadSection(tpl) ==
    \/ tpl.kind # "list"
    \/ \E n \in 1..Len(tpl.sections) :
          \/ CleanInline(tpl.sections[n].heading) = <<>>
          \/ tpl.sections[n].items = <<>>

\* the Template is structurally invalid: the above, or an empty `sections` list
InvalidTemplate(tpl) == NoListOrBadSection(tpl) \/ tpl.sections = <<>>

\* the lines of the instruction text that follow the fixed preamble
SectionLines(txt) ==
    LET all == SplitOn(txt, "\n")
        fixed == Len(SplitOn(Join(PreambleLines, <<"\n">>), "\n"))
    IN SubSeq(all, fixed + 1, Len(all))

\* the heading a "<n>) Heading: <heading>" line lists
ListedHeading(line) == SubSeq(line, 3, Len(line))

\* the labels an "   Items: <label> | <label> ..." line lists
ListedLabels(line) == SplitOn(SubSeq(line, 2, Len(line)), " | ")

\* the instruction text and the shape list the headings hs and the label
\* lists ls, section by section, labels right after their heading
InstructionsList(ins, hs, ls) ==
    LET body == SectionLines(ins.text) IN
    /\ Len(body) = 2 * Len(hs)
    /\ Len(ins.shape) = Len(hs)
    /\ \A n \in 1..Len(hs) :
          /\ body[2 * n - 1][1] = ToString(n)
          /\ body[2 * n - 1][2] = ") Heading: "
          /\ ListedHeading(body[2 * n - 1]) = hs[n]
          /\ body[2 * n][1] = "   Items: "
          /\ ListedLabels(body[2 * n]) = ls[n]
          /\ ins.shape[n] = <<hs[n], ls[n]>>

RawHeadings(tpl) == [n \in 1..Len(tpl.sections) |-> tpl.sections[n].heading]
RawLabels(tpl) == [n \in 1..Len(tpl.sections) |-> tpl.sections[n].items]
CleanHeadings(tpl) ==
    [n \in 1..Len(tpl.sections) |-> CleanInline(tpl.sections[n].heading)]
CleanLabels(tpl) ==
    [n \in 1..Len(tpl.sections) |->
        [j \in 1..Len(tpl.sections[n].items) |-> CleanInline(tpl.sections[n].items[j])]]

\* C6 (as claimed): _make_output_instructions raises, and returns no text,
\* for every Template that has no sections (an empty `sections` list
\* included) or has a section with an empty heading or an empty item list.
C6_InvalidTemplateRaises ==
    (tph = "instr_done" /\ InvalidTemplate(template)) =>
        (~instr.ok /\ instr.err = "ValueError" /\ instr.text = <<>>)

\* C10 (as claimed): for a valid Template the instruction text lists the
\* Template's own headings and labels, in order, and the shape list holds them.
C10_InstructionsListTemplateVerbatim ==
    (tph = "instr_done" /\ ~InvalidTemplate(template)) =>
        (instr.ok /\ InstructionsList(instr, RawHeadings(template), RawLabels(template)))

\* C10 (amended): for a valid Template the instruction text lists every section
\* heading and every item label as normalized by _clean_inline, each section's
\* labels directly after its heading, in Template order, and the shape list
\* holds the same normalized headings and labels in the same order.
C10_InstructionsListNormalizedTemplate ==
    (tph = "instr_done" /\ ~InvalidTemplate(template)) =>
        (instr.ok /\ InstructionsList(instr, CleanHeadings(template), CleanLabels(template)))

\* C10 witness: instructions were built for a valid two-section Template whose
\* headings and labels need normalizing.
C10_Witness ==
    /\ tph = "instr_done"
    /\ instr.ok
    /\ Len(template.sections) = 2
    /\ template.sections[1].heading = <<"b", "*">>
    /\ template.sections[2].heading = <<"a">>
    /\ template.sections[1].items = << <<" ", "y">>, <<"x">> >>
    /\ Len(template.sections[2].items) = 2

\* -------------------------- claims on _parse_repair_and_lock_schema
\* the summary mirrors the headings hs and label lists ls: one block per
\* section, in order, with that heading and those labels
SummaryMirrors(blocks, hs, ls) ==
    /\ Len(blocks) = Len(hs)
    /\ \A n \in 1..Len(hs) :
          /\ blocks[n].heading = hs[n]
          /\ Len(blocks[n].items) = Len(ls[n])
          /\ \A j \in 1..Len(ls[n]) : blocks[n].items[j].label = ls[n][j]

Attempts(l) == SelectSeq(l, LAMBDA e : e.op = "attempt")
Sleeps(l) == SelectSeq(l, LAMBDA e : e.op = "sleep")
ChunkRequests(l) == SelectSeq(l, LAMBDA e : e.op = "chunk")
FailedChunkRequests(l) == SelectSeq(l, LAMBDA e : e.op = "chunk" /\ e.what # "ok")

RunEnded == rpc \in {"raised", "returned"}

\* _consolidate_notes_to_json_with_retries has returned a text
ConsolidationReturned ==
    \/ rpc \in {"parse", "render", "returned"}
    \/ rpc = "raised" /\ outcome.err.site = "parse"

\* _consolidate_notes_to_json_with_retries has raised
ConsolidationRaised ==
    rpc = "raised" /\ outcome.err.site \in {"consolidate", "instructions"}

\* C2 (as claimed): a failed chunk call is caught: the run still makes every
\* chunk call, keeps the Notes of the calls that succeeded and goes on to
\* consolidation, also when every chunk call failed.
C2_ChunkFailureTolerated ==
    (RunEnded /\ FailedChunkRequests(log) # <<>>) =>
        /\ Len(ChunkRequests(log)) = nChunks
        /\ Len(notes) = nChunks - Len(FailedChunkRequests(log))
        /\ Attempts(log) # <<>>

\* C3 (as claimed): a consolidation response that fails validation is retried
\* like a transport failure: the run ends on a validation error only once
\* MAX_RETRIES + 1 consolidation attempts have been made.
C3_InvalidResponseRetried ==
    (rpc = "raised" /\ outcome.err.site = "parse" /\ outcome.err.type = "ValueError") =>
        Len(Attempts(log)) = MAX_RETRIES + 1

\* C4: the retry loop makes at most MAX_RETRIES + 1 attempts, numbered in
\* order; no attempt follows one that succeeded, and the text of that attempt
\* is what is returned; when it raises, all MAX_RETRIES + 1 attempts have
\* failed and the error raised is the last attempt's; a sleep follows every
\* failed attempt but the last one and nothing else, and the sleeps strictly
\* grow.
C4_BoundedRetriesWithGrowingBackoff ==
    LET att == Attempts(log)
        sl == Sleeps(log)
    IN /\ Len(att) <= MAX_RETRIES + 1
       /\ \A j \in 1..Len(att) : att[j].n = j - 1
       /\ \A j \in 1..(Len(att) - 1) : att[j].what # "ok"
       /\ ConsolidationReturned =>
             (att # <<>> /\ att[Len(att)].what = "ok" /\ raw # NoResp)
       /\ ConsolidationRaised =>
             /\ Len(att) = MAX_RETRIES + 1
             /\ \A j \in 1..Len(att) : att[j].what # "ok"
             /\ outcome.err = last_err
             /\ outcome.err.n = MAX_RETRIES
             /\ outcome.err.type = att[Len(att)].what
       /\ \A p \in 1..Len(log) :
             /\ log[p].op = "sleep" =>
                   (p > 1 /\ log[p - 1].op = "attempt" /\ log[p - 1].what # "ok"
                          /\ log[p - 1].n < MAX_RETRIES)
             /\ (log[p].op = "attempt" /\ log[p].n > 0) => log[p - 1].op = "sleep"
             /\ (log[p].op = "attempt" /\ (log[p].what = "ok" \/ log[p].n = MAX_RETRIES))
                   => p = Len(log)
       /\ \A j \in 1..Len(sl) : sl[j].n > 0
       /\ \A j \in 1..(Len(sl) - 1) : sl[j].n < sl[j + 1].n

\* C4 witness: every attempt failed on the transport, two sleeps were taken
\* and the last attempt's error was raised.
C4_Witness ==
    /\ ConsolidationRaised
    /\ outcome.err = [type |-> "_APIError", site |-> "consolidate", n |-> MAX_RETRIES]
    /\ Len(Sleeps(log)) = MAX_RETRIES
    /\ Len(ChunkRequests(log)) = 2

\* C5 (as claimed): with a structurally invalid Template the run fails before
\* any model request and without a retry: the log holds no chunk request, no
\* consolidation request and no sleep, only the one failed attempt.
C5_InvalidTemplateFailsFast ==
    NoListOrBadSection(runTemplate) =>
        /\ Len(log) <= 1
        /\ \A p \in 1..Len(log) : log[p].op = "attempt" /\ log[p].what = "ValueError"

\* ------------------------- further claims on _parse_repair_and_lock_schema
\* the call has ended, with a summary
ParseReturned == tph = "parse_done" /\ result.ok

\* label j of section n of the template has no match in the response: the
\* response has no block of that (normalized) heading, or the block read for
\* that heading has no item of that (normalized) label
MissingField(n, j) ==
    LET e == Expected(template)[n] IN
    \/ e.heading \notin DOMAIN source_blocks
    \/ e.labels[j] \notin DOMAIN source_blocks[e.heading]

C14_IllFormedOutputIsContentError ==
    (tph = "parse_done" /\ ~result.ok) => result.err = "ValueError"

FirstWords(s) == Join(SubSeq(Words(s), 1, SENTENCE_MAX_WORDS), <<" ">>)

IsTrailingMark(c) == c \in {",", ";", ":"}

\* t without the commas, semicolons and colons it ends in
WithoutTrailingMarks(t) ==
    LET m == CHOOSE q \in 0..Len(t) :
                 /\ \A j \in (q + 1)..Len(t) : IsTrailingMark(t[j])
                 /\ (q = 0 \/ ~IsTrailingMark(t[q]))
    IN SubSeq(t, 1, m)

EndsTerminal(t) == t # <<>> /\ IsTerminal(t[Len(t)])

\* C13 (as claimed): a value of more than SENTENCE_MAX_WORDS words comes back
\* as its first SENTENCE_MAX_WORDS words joined by single spaces, ending in
\* . ! or ? (the joined words themselves, or with a terminal mark appended); a
\* value of at most SENTENCE_MAX_WORDS words comes back unchanged.
C13_FirstWordsTerminated ==
    eph = "done" =>
        IF Len(Words(sentence)) > SENTENCE_MAX_WORDS
        THEN /\ EndsTerminal(shortened)
             /\ shortened \in {FirstWords(sentence)}
                    \cup {Append(FirstWords(sentence), c) : c \in {".", "!", "?"}}
        ELSE shortened = sentence

\* C13: a value of more than SENTENCE_MAX_WORDS words comes back as its first
\* SENTENCE_MAX_WORDS words joined by single spaces, without the commas,
\* semicolons and colons that text ends in, and with a period appended unless
\* what is left already ends in . ! or ?; the result ends in . ! or ? and has
\* at most SENTENCE_MAX_WORDS words; a value of at most SENTENCE_MAX_WORDS
\* words comes back unchanged.
C13_FirstWordsTrimmedAndTerminated ==
    eph = "done" =>
        IF Len(Words(sentence)) > SENTENCE_MAX_WORDS
        THEN LET core == WithoutTrailingMarks(FirstWords(sentence)) IN
             /\ shortened = IF EndsTerminal(core) THEN core ELSE Append(core, ".")
             /\ EndsTerminal(shortened)
             /\ Len(Words(shortened)) <= SENTENCE_MAX_WORDS
        ELSE shortened = sentence

\* C13 witness: a value of more than SENTENCE_MAX_WORDS words whose word at
\* the cut ends in a comma has been shortened, and the comma is gone.
C13_Witness ==
    /\ eph = "done"
    /\ Len(Words(sentence)) > SENTENCE_MAX_WORDS
    /\ IsTrailingMark(FirstWords(sentence)[Len(FirstWords(sentence))])
    /\ shortened = Append(WithoutTrailingMarks(FirstWords(sentence)), ".")
    /\ Len(shortened) < Len(sentence)

\* ------------------------------------------------------- claims on _chat
\* C20 (as claimed): a client with the Chat Completions path is asked there
\* first, and a text returned from there ends the call without a Responses
\* API request; the Responses API is asked only when the Chat Completions path
\* is absent or has raised; and every failure of _chat is an _APIError.
C20_ChatFallsBackOrRaisesAPIError ==
    cph = "done" =>
        /\ HasChatPath(client) => (tried # <<>> /\ tried[1] = "chat.completions")
        /\ chatOut.via = "chat.completions" => tried = <<"chat.completions">>
        /\ (\E j \in 1..Len(tried) : tried[j] = "responses") =>
              (~HasChatPath(client) \/ last # "unbound")
        /\ chatOut.kind = "raised" => chatOut.type = "_APIError"

\* ------------------------------- further claims on summarize_document
\* C16: a run has one of two outcomes and nothing in between: it returns the
\* JSON and the text of one complete summary (one block per template section,
\* the text rendered from the very blocks of the JSON), or it raises and
\* returns neither; before it ends it has produced nothing.
C16_NoPartialSuccess ==
    /\ outcome.kind \in {"none", "returned", "raised"}
    /\ (outcome.kind = "none") = ~RunEnded
    /\ (outcome.kind = "returned") = (rpc = "returned")
    /\ (outcome.kind = "raised") = (rpc = "raised")
    /\ outcome.kind = "returned" =>
          /\ outcome.err = NoErr
          /\ outcome.json = data
          /\ outcome.text = RenderPlain(outcome.json)
          /\ Len(outcome.json) = Len(runTemplate.sections)
          /\ \A n \in 1..Len(outcome.json) :
                Len(outcome.json[n].items) = Len(runTemplate.sections[n].items)
    /\ outcome.kind # "returned" => (outcome.json = <<>> /\ outcome.text = <<>>)
    /\ outcome.kind = "raised" =>
          /\ outcome.err # NoErr
          /\ outcome.err.site \in {"chunk", "instructions", "consolidate", "parse"}

\* C16 witness: a run has returned the JSON and a non-empty text of a summary
\* of one block.
C16_Witness ==
    /\ rpc = "returned"
    /\ Len(outcome.json) = 1
    /\ outcome.json[1].items # <<>>
    /\ outcome.text # <<>>
    /\ outcome.text = RenderPlain(outcome.json)

\* the layout of the claim: per block the heading, a line of as many dashes,
\* one line "label: value" per item, and a blank line between blocks
RECURSIVE ClaimedLines(_, _)
ClaimedLines(blocks, n) ==
    IF n > Len(blocks) THEN <<>>
    ELSE <<blocks[n].heading, Dashes(Len(blocks[n].heading))>>
         \o [j \in 1..Len(blocks[n].items) |->
                blocks[n].items[j].label \o <<":", " ">> \o blocks[n].items[j].value]
         \o (IF n < Len(blocks) THEN <<<<>>>> ELSE <<>>)
         \o ClaimedLines(blocks, n + 1)

\* C17 (as claimed): the text returned is the layout above of the blocks of
\* the JSON returned, every line carrying the label and the value of the JSON.
C17_TextRendersJson ==
    rpc = "returned" =>
        outcome.text = Join(ClaimedLines(outcome.json, 1), <<"\n">>)

\* the consolidation attempts that issued a request (an attempt that fails on
\* the template issues none)
ConsolidationRequests(l) ==
    SelectSeq(l, LAMBDA e : e.op = "attempt" /\ e.what # "ValueError")

C19_RunEventuallyEnds == <>RunEnded

\* C19 witness: a run has ended whose text was split with an overlap no
\* smaller than max_len into several chunks, after a chunk call for each and
\* MAX_RETRIES + 1 consolidation attempts.
C19_Witness ==
    /\ RunEnded
    /\ overlap >= max_len
    /\ nChunks >= 3
    /\ Len(ChunkRequests(log)) = nChunks
    /\ Len(Attempts(log)) = MAX_RETRIES + 1

\* ------------------------------------------------------- claims on app.py
\* C21: view_document returns the bytes of a stored document only to a
\* session that is logged in as the user who owns the file; a request with
\* no user_id in the session, or with the user_id of another user, receives
\* no document bytes.
C21_DocumentOnlyToOwner ==
    (reply.route = "view_document" /\ reply.body.kind = "bytes") =>
        /\ LoggedIn(session)
        /\ \E f \in files :
              /\ f.fileid = reply.body.doc_id
              /\ f.userid = session["user_id"]

\* C22: after register succeeds for an email e and a password p, a login
\* submitting the same e and p succeeds and sets the session's user_id to
\* the registered user, for every email register accepts, upper-case
\* letters and surrounding spaces included.  (No route of SpecAccounts
\* changes the email or the passwordhash of a row once it is registered.)
C22_RegisterLoginRoundTrip ==
    \A u \in users : LoginUser(u.email, u.passwordhash.of) = u.userid

\* C23: after forgot_password reports success for a registered email with the
\* new password q, a login with that email and q succeeds and a login with
\* the previous password fails.  The rows read here are those of emails that
\* login looks up unchanged, so the round trip of C22 does not interfere; a
\* row's column password holds the hash of the last q a reset stored.
C23_ResetPasswordIsLoginCredential ==
    \A u \in users :
        (u.password # NoHash /\ Lower(Strip(u.email)) = u.email) =>
            /\ LoginUser(u.email, u.password.of) = u.userid
            /\ u.passwordhash.of # u.password.of =>
                   LoginUser(u.email, u.passwordhash.of) = NULL

\* the routes that test 'user_id' in session, and those that test
\* admin_logged_in
LoginGuarded ==
    {"dashboard", "upload_document", "delete_document", "select_plan",
     "payment_process", "add_category", "update_document_category",
     "delete_category", "feedback"}

AdminGuarded ==
    {"admin_users", "delete_user", "manage_templates", "create_template",
     "edit_template", "delete_template"}

\* C24: a login-guarded route executes no SQL statement and changes no table
\* when the session holds no user_id, and an admin route none unless
\* admin_logged_in is set; logout leaves the session with neither, and only a
\* successful login sets user_id, only a successful admin_login sets
\* admin_logged_in.
C24_GuardedRoutesNeedSession ==
    [][/\ (reply'.route \in LoginGuarded /\ ~LoggedIn(session)) =>
              (reply'.db = <<>> /\ UNCHANGED tables /\ ~LoggedIn(session'))
       /\ (reply'.route \in AdminGuarded /\ ~AdminLoggedIn(session)) =>
              (reply'.db = <<>> /\ UNCHANGED tables /\ ~AdminLoggedIn(session'))
       /\ reply'.route = "logout" =>
              (~LoggedIn(session') /\ ~AdminLoggedIn(session'))
       /\ (~LoggedIn(session) /\ LoggedIn(session')) =>
              (reply'.route = "login" /\ reply'.status = 302)
       /\ (~AdminLoggedIn(session) /\ AdminLoggedIn(session')) =>
              (reply'.route = "admin_login" /\ reply'.status = 302)]_vars

\* C24 witness: after a user uploaded a document and an admin created a
\* template, the session was cleared, and delete_template was answered with
\* the redirect to the admin login: the template is still there.
C24_Witness ==
    /\ reply.route = "delete_template"
    /\ reply.db = <<>>
    /\ session = NoSession
    /\ uploadsummarytemplates # {}
    /\ files # {}

\* the folder id names a folder of a user other than uid
OthersFolder(id, uid) == \E c \in folders : c.folderid = id /\ c.userid # uid

\* C25: delete_document, update_document_category and delete_category change
\* only rows owned by the session's user: every file row and folder row of
\* another user is left unchanged, and a request naming another user's
\* document or category deletes and updates nothing.  (A row that
\* update_document_category changed holds the category the request named; a
\* row that delete_category changed held it before.)
C25_OnlyOwnRowsChange ==
    [][(/\ LoggedIn(session)
        /\ reply'.route \in {"delete_document", "update_document_category",
                             "delete_category"}) =>
           /\ \A f \in files \ files' : f.userid = session["user_id"]
           /\ \A c \in folders \ folders' : c.userid = session["user_id"]
           /\ \A f \in files' \ files :
                 /\ f.userid = session["user_id"]
                 /\ ~OthersFolder(f.folderid, session["user_id"])
           /\ reply'.route = "delete_category" =>
                 \A f \in files \ files' :
                     ~OthersFolder(f.folderid, session["user_id"])]_vars

====
